---- MODULE Spec2Model ----
(***************************************************************************)
(* A model of the german-verbs-db scraper: the checkpointed phase state    *)
(* machine of scrape.js (main), the checkpoint file of state.js, the       *)
(* store of db.js / schema.sql, and the rate-limited client of api.js.     *)
(*                                                                         *)
(* Spec follows main() over runs that can be stopped and resumed;          *)
(* SpecFaults adds store writes that throw and a damaged state file;       *)
(* SpecSeq follows the calls of apiRequest and the clock of the limiter    *)
(* with one caller at a time, SpecConc with overlapping callers;           *)
(* SpecParse applies parseConjugations of parser.js to Flexion pages;      *)
(* SpecStore applies insertVerb and insertConjugation to a store;          *)
(* SpecLive is Spec under the fairness of a process that keeps running     *)
(* and is started again after a stop; SpecFreq adds the frequency update   *)
(* of frequency.js.                                                        *)
(*                                                                         *)
(* Strings the code takes apart (titles, error messages, slot values) are  *)
(* sequences of tokens, so that matching, startsWith, includes and trim    *)
(* are computed and not assumed.                                           *)
(***************************************************************************)
EXTENDS Integers, Sequences, FiniteSets, TLC

\* ------------------------------------------------------------------ bounds

\* How many times the scraper process is started in one behaviour.
MaxRuns == 3

\* How many calls of apiRequest are made in one behaviour.
MaxCalls == 3

\* Date.now() when the process starts, in ms.
Epoch == 1000

\* The clock advances by this many ms at a time while the code is suspended.
TickMs == 50

\* The clock is followed for this many ms.
Horizon == 200

\* ------------------------------------------------------- values and helpers

\* JavaScript's null, as held by verbListContinueToken and returned by
\* getPageText / extractInfinitiveFromTitle.
Null == "null"

\* The three phases of ScraperState.phase, in the order main() tests them.
Phases == <<"fetching_verbs", "fetching_conjugations", "completed">>

\* Position of a phase in Phases.
PhaseRank(p) ==
    CHOOSE k \in 1..Len(Phases) : Phases[k] = p

\* Page titles, token by token: "Flexion:gehen", "Flexion:sich freuen", ...
TGehen == <<"Flexion:", "gehen">>
TAufstehen == <<"Flexion:", "aufstehen">>
TSichFreuen == <<"Flexion:", "sich", " ", "freuen">>
TOther == <<"Benutzer:", "x">>

\* The category as the server holds it: a sequence of pages of titles.  The
\* server's content is fixed during a behaviour and chosen in Init.
Categories ==
    { << <<TGehen, TSichFreuen>>, <<TAufstehen>> >>,
      << <<TOther, TGehen>> >>,
      << <<>> >> }

\* cmcontinue tokens: TokenNames[k] asks for page k.
TokenNames == <<"page|0", "page|1", "page|2">>

\* The page a request with continuation token t asks for (no token: the first).
PageOfToken(t) ==
    IF t = Null THEN 1 ELSE CHOOSE k \in 1..Len(TokenNames) : TokenNames[k] = t

\* s is a prefix of t.
IsPrefix(s, t) ==
    /\ Len(s) <= Len(t)
    /\ \A k \in 1..Len(s) : s[k] = t[k]

\* The concatenation of the pages of a category.
RECURSIVE Flatten(_)
Flatten(pages) ==
    IF pages = <<>> THEN <<>> ELSE Head(pages) \o Flatten(Tail(pages))

\* --------------------------------------------------------------- parser.js

\* extractInfinitiveFromTitle: /^Flexion:(.+)$/ gives the text after the
\* prefix, and null when the title does not match.
extractInfinitiveFromTitle(pageTitle) ==
    IF Len(pageTitle) >= 2 /\ pageTitle[1] = "Flexion:"
    THEN Tail(pageTitle)
    ELSE Null

\* String.prototype.includes(" ") on a tokenised string.
IncludesSpace(s) ==
    \E k \in 1..Len(s) : s[k] = " "


\* A mutant of ShouldSkipTitle: only a missing infinitive is skipped.
ShouldSkipTitleNullOnly(pageTitle) ==
    extractInfinitiveFromTitle(pageTitle) = Null

\* scrape.js line 118: !infinitive || infinitive.includes(" ").
ShouldSkipTitle(pageTitle) ==
    LET infinitive == extractInfinitiveFromTitle(pageTitle)
    IN  IF infinitive = Null THEN TRUE ELSE IncludesSpace(infinitive)

\* ----------------------------------------------------- completeness check

\* The placeholder character U+2014 of an unattested form.
EmDash == "--"

Slots == <<"sg1", "sg2", "sg3", "pl1", "pl2", "pl3">>

\* String.prototype.trim on a tokenised string.
RECURSIVE TrimLeft(_)
TrimLeft(s) ==
    IF s # <<>> /\ Head(s) = " " THEN TrimLeft(Tail(s)) ELSE s

RECURSIVE TrimRight(_)
TrimRight(s) ==
    IF s # <<>> /\ s[Len(s)] = " " THEN TrimRight(SubSeq(s, 1, Len(s) - 1)) ELSE s

Trim(s) ==
    TrimRight(TrimLeft(s))

\* One slot passes: present and truthy, not the dash, not blank.
FormOk(forms, form) ==
    /\ form \in DOMAIN forms
    /\ forms[form] # <<>>
    /\ forms[form] # <<EmDash>>
    /\ Trim(forms[form]) # <<>>


\* A mutant of hasAllForms: the placeholder is not tested for.
hasAllFormsDashOk(forms) ==
    \A k \in 1..Len(Slots) :
        /\ Slots[k] \in DOMAIN forms
        /\ forms[Slots[k]] # <<>>
        /\ Trim(forms[Slots[k]]) # <<>>

\* hasAllForms: every one of the six slots passes.
hasAllForms(forms) ==
    \A k \in 1..Len(Slots) : FormOk(forms, Slots[k])

\* Slot sets as parseConjugationRows can return them: six extracted cells, or
\* the empty object when fewer than six rows were found.
FullForms(w) ==
    [f \in {Slots[k] : k \in 1..Len(Slots)} |-> w]

NoForms == [f \in {} |-> <<>>]

SlotSets ==
    { FullForms(<<"gehe">>),
      [FullForms(<<"gehe">>) EXCEPT !["sg3"] = <<EmDash>>],
      [FullForms(<<"gehe">>) EXCEPT !["pl1"] = <<" ", " ">>],
      [FullForms(<<"gehe">>) EXCEPT !["pl3"] = <<>>],
      NoForms }

\* The six tenses of parseConjugations' result (parser.js lines 64-73).
Tenses ==
    <<"praesens", "praeteritum", "perfekt", "plusquamperfekt", "futur1", "futur2">>

\* What parseConjugations returns for a page: a slot set for each tense.
ParseResults ==
    [praesens : SlotSets, praeteritum : SlotSets, perfekt : SlotSets,
     plusquamperfekt : SlotSets, futur1 : SlotSets, futur2 : SlotSets]

\* The parse results the pages of the server give.  Of praesens, praeteritum
\* and perfekt every one is complete, or one is deficient in one of the ways
\* of SlotSets; the other three tenses are all complete, all absent, or
\* futur1 alone is there.  And a page nothing is parsed from.
PageResults ==
    {c \in ParseResults :
        /\ Cardinality({t \in {"praesens", "praeteritum", "perfekt"} :
                           c[t] # FullForms(<<"gehe">>)}) <= 1
        /\ \/ \A t \in {"plusquamperfekt", "futur1", "futur2"} :
                  c[t] = FullForms(<<"gehe">>)
           \/ \A t \in {"plusquamperfekt", "futur1", "futur2"} : c[t] = NoForms
           \/ /\ c.futur1 = FullForms(<<"gehe">>)
              /\ c.plusquamperfekt = NoForms
              /\ c.futur2 = NoForms
              /\ \A t \in {"praesens", "praeteritum", "perfekt"} :
                    c[t] = FullForms(<<"gehe">>)}
    \cup {[t \in {Tenses[k] : k \in 1..Len(Tenses)} |-> NoForms]}

\* The result no section was found for (lines 64-73 as they stand).
NoParse ==
    [t \in {Tenses[k] : k \in 1..Len(Tenses)} |-> NoForms]

\* ------------------------------------------------ parser.js: the page text

\* The text of a page, piece by piece.  Every piece is a record of one shape:
\*   tdc   <td colspan="3" ...>                 the opening of a heading cell
\*   span  <span ...></span>                    right after the opening
\*   b     <b><a ...>
\*   lbl   LABEL</a></b>\n</td></tr>            label: the tense's label
\*   row   <tr>\n<td ...><small>..</small>\n</td>\n<td>CELL\n</td></tr>
\*         attrs: the first td carries attributes; small and cell: its texts
\*   endt  </tbody></table>
\*   h2    <h2 ...>CELL</h2>
\*   txt   any other text
Piece(k) ==
    [k |-> k, label |-> "", attrs |-> FALSE, small |-> <<>>, cell |-> <<>>]

LabelPiece(label) ==
    [Piece("lbl") EXCEPT !.label = label]

RowPiece(attrs, small, cell) ==
    [Piece("row") EXCEPT !.attrs = attrs, !.small = small, !.cell = cell]

H2Piece(cell) ==
    [Piece("h2") EXCEPT !.cell = cell]

\* The tokens of the text of a cell that the regular expressions of
\* extractTextFromCell tell apart; every other token is a word.
TagTokens == {"<a>", "</a>", "<small>", "</small>", "<sup>", "</sup>"}

EntityTokens == {"&nbsp;"}

PronounTokens == {"ich", "du", "wir", "ihr", "sie"}

ReflexiveTokens == {"mich", "dich", "sich", "uns", "euch"}

\* The smallest member of a set of numbers, 0 for the empty set.
FirstOf(S) ==
    IF S = {} THEN 0 ELSE CHOOSE n \in S : \A m \in S : n <= m

\* Line 19: <sup[^>]*>.*?<\/sup> is removed with what it encloses; a <sup>
\* that is not closed stays, for line 20.
RECURSIVE RemoveSup(_)
RemoveSup(s) ==
    IF s = <<>> THEN <<>>
    ELSE IF Head(s) = "<sup>"
         THEN LET close == FirstOf({n \in 2..Len(s) : s[n] = "</sup>"})
              IN  IF close = 0
                  THEN <<Head(s)>> \o RemoveSup(Tail(s))
                  ELSE RemoveSup(SubSeq(s, close + 1, Len(s)))
         ELSE <<Head(s)>> \o RemoveSup(Tail(s))

\* Lines 20-21: every tag and every entity becomes a space.
TagsToSpace(s) ==
    [n \in 1..Len(s) |-> IF s[n] \in TagTokens \cup EntityTokens THEN " " ELSE s[n]]

\* Lines 22 and 30: a run of white space becomes one space.
RECURSIVE CollapseSpace(_)
CollapseSpace(s) ==
    IF Len(s) < 2 THEN s
    ELSE IF s[1] = " " /\ s[2] = " "
         THEN CollapseSpace(Tail(s))
         ELSE <<Head(s)>> \o CollapseSpace(Tail(s))

\* Lines 27-28: er/sie/es and the personal pronouns become a comma.
PronounsToComma(s) ==
    [n \in 1..Len(s) |-> IF s[n] = "er/sie/es" \/ s[n] \in PronounTokens
                         THEN "," ELSE s[n]]

\* Line 29: the reflexive pronouns are removed.
RemoveReflexive(s) ==
    SelectSeq(s, LAMBDA x : x \notin ReflexiveTokens)

\* String.prototype.split on a one-token separator.
RECURSIVE Split(_, _)
Split(s, sep) ==
    LET at == FirstOf({n \in 1..Len(s) : s[n] = sep})
    IN  IF at = 0 THEN <<s>>
        ELSE <<SubSeq(s, 1, at - 1)>> \o Split(SubSeq(s, at + 1, Len(s)), sep)

\* Array.prototype.join with the separator sep.
RECURSIVE Join(_, _)
Join(parts, sep) ==
    IF parts = <<>> THEN <<>>
    ELSE IF Len(parts) = 1 THEN parts[1]
         ELSE parts[1] \o sep \o Join(Tail(parts), sep)

\* Lines 31-34: split(","), trim each, drop the empty ones, join(", ").
TrimEach(parts) ==
    [n \in 1..Len(parts) |-> Trim(parts[n])]

\* extractTextFromCell, lines 16-37.
extractTextFromCell(cell) ==
    LET text == Trim(CollapseSpace(TagsToSpace(RemoveSup(cell))))
        cleaned == CollapseSpace(RemoveReflexive(PronounsToComma(text)))
        alts == SelectSeq(TrimEach(Split(cleaned, ",")), LAMBDA a : a # <<>>)
    IN  Join(alts, <<",", " ">>)

\* rows[n].match(/<td>(.*?)\n<\/td>/) of lines 47-52: the first <td> without
\* attributes of the row and the text up to its end.  That is the second cell
\* of the row when the first one carries attributes, and else the first one,
\* with its <small> element.
RowCellMatch(row) ==
    IF row.attrs
    THEN [found |-> TRUE, cell |-> row.cell]
    ELSE [found |-> TRUE, cell |-> <<"<small>">> \o row.small \o <<"</small>">>]

\* parseConjugationRows, lines 43-54: {} for fewer than six rows, else the
\* six slots from the first six rows; threw: a match of lines 47-52 is null.
parseConjugationRows(rows) ==
    IF Len(rows) < 6
    THEN [threw |-> FALSE, forms |-> NoForms]
    ELSE [threw |-> \E n \in 1..6 : ~ RowCellMatch(rows[n]).found,
          forms |-> [f \in {Slots[n] : n \in 1..Len(Slots)} |->
                        LET n == CHOOSE m \in 1..Len(Slots) : Slots[m] = f
                        IN  extractTextFromCell(RowCellMatch(rows[n]).cell)]]

\* The labels of the tenses, and what ends the region of each: the opening
\* of a heading cell with a <span right after it, or the end of the table.
TenseLabel(t) ==
    CASE t = "praesens" -> "Praesens"
      [] t = "praeteritum" -> "Praeteritum"
      [] t = "perfekt" -> "Perfekt"
      [] t = "plusquamperfekt" -> "Plusquamperfekt"
      [] t = "futur1" -> "Futur I"
      [] OTHER -> "Futur II"

RegionEnd(t) ==
    IF t \in {"plusquamperfekt", "futur2"} THEN "endt" ELSE "span"

\* The piece at n starts what ends a region.
EndsRegion(text, n, end) ==
    IF end = "endt"
    THEN text[n].k = "endt"
    ELSE /\ text[n].k = "tdc"
         /\ n < Len(text)
         /\ text[n + 1].k = "span"

\* The match of lines 88-90 (and 100, 112, 124, 136, 148) for the tense t:
\*   <td colspan="\d+"[^>]*> .*? <b> .*? LABEL<\/a><\/b>\n<\/td><\/tr> (.*?) END
\* with the flag s.  The match starts at the first heading-cell opening, goes
\* to the first <b> after it and to the first label of t after that; the
\* region is what lies between that label and the first END after it.
SectionMatch(text, t) ==
    LET a == FirstOf({n \in 1..Len(text) : text[n].k = "tdc"})
        b == IF a = 0 THEN 0
             ELSE FirstOf({n \in (a + 1)..Len(text) : text[n].k = "b"})
        c == IF b = 0 THEN 0
             ELSE FirstOf({n \in (b + 1)..Len(text) :
                              text[n] = LabelPiece(TenseLabel(t))})
        d == IF c = 0 THEN 0
             ELSE FirstOf({n \in (c + 1)..Len(text) :
                              EndsRegion(text, n, RegionEnd(t))})
    IN  IF d = 0
        THEN [matched |-> FALSE, region |-> <<>>]
        ELSE [matched |-> TRUE, region |-> SubSeq(text, c + 1, d - 1)]

\* The match with the flag g of lines 93-95: the rows of a region, in order.
RowsOf(region) ==
    SelectSeq(region, LAMBDA x : x.k = "row")

\* Lines 88-97 for the tense t: its slot set, {} as set in lines 67-72 when
\* the section is not found.
ParseTense(text, t) ==
    LET m == SectionMatch(text, t)
    IN  IF m.matched
        THEN parseConjugationRows(RowsOf(m.region))
        ELSE [threw |-> FALSE, forms |-> NoForms]

\* Lines 76-85: the infinitive before "(Konjugation)" in the first h2
\* heading, tags taken out; "" without one.
InfinitiveOf(text) ==
    LET h == FirstOf({n \in 1..Len(text) : text[n].k = "h2"})
        h2Text == IF h = 0 THEN <<>>
                  ELSE SelectSeq(text[h].cell, LAMBDA x : x \notin TagTokens)
        stop == FirstOf({n \in 1..Len(h2Text) :
                            h2Text[n] \in {" ", "(Konjugation)"}})
        after == IF stop = 0 THEN <<>>
                 ELSE TrimLeft(SubSeq(h2Text, stop, Len(h2Text)))
    IN  IF stop > 1 /\ after # <<>> /\ Head(after) = "(Konjugation)"
        THEN SubSeq(h2Text, 1, stop - 1)
        ELSE <<>>

\* filter((p) => !reflexive.test(p)) of lines 167-170.
RemoveReflexiveParts(parts) ==
    SelectSeq(parts, LAMBDA p : ~ (Len(p) = 1 /\ p[1] \in ReflexiveTokens))


\* A mutant of SeparablePrefixOf: the stem is kept in the prefix.
SeparablePrefixWithStem(praesens) ==
    IF "sg1" \in DOMAIN praesens /\ praesens["sg1"] # <<>>
    THEN LET firstForm == Trim(Split(praesens["sg1"], ",")[1])
         IN  IF IncludesSpace(firstForm)
             THEN Join(RemoveReflexiveParts(Split(firstForm, " ")), <<" ">>)
             ELSE <<>>
    ELSE <<>>

\* Lines 161-174: the separable prefix, from the first alternative of the
\* sg1 slot of praesens; "" as set in line 65 otherwise.
SeparablePrefixOf(praesens) ==
    IF "sg1" \in DOMAIN praesens /\ praesens["sg1"] # <<>>
    THEN LET firstForm == Trim(Split(praesens["sg1"], ",")[1])
         IN  IF IncludesSpace(firstForm)
             THEN Join(RemoveReflexiveParts(Tail(Split(firstForm, " "))), <<" ">>)
             ELSE <<>>
    ELSE <<>>

\* The result of lines 64-73 with nothing found.
EmptyParsedVerb ==
    [separablePrefix |-> <<>>, infinitive |-> <<>>,
     praesens |-> NoForms, praeteritum |-> NoForms, perfekt |-> NoForms,
     plusquamperfekt |-> NoForms, futur1 |-> NoForms, futur2 |-> NoForms]


\* Lines 64-157: the object of line 64 after the heading and the six
\* sections were looked for.
ParsedTables(text) ==
    [separablePrefix |-> <<>>,
     infinitive |-> InfinitiveOf(text),
     praesens |-> ParseTense(text, "praesens").forms,
     praeteritum |-> ParseTense(text, "praeteritum").forms,
     perfekt |-> ParseTense(text, "perfekt").forms,
     plusquamperfekt |-> ParseTense(text, "plusquamperfekt").forms,
     futur1 |-> ParseTense(text, "futur1").forms,
     futur2 |-> ParseTense(text, "futur2").forms]


\* A mutant of DetectSeparablePrefix: the prefix is also taken out of the
\* slot it was found in.
DetectSeparablePrefixAndStrip(r) ==
    IF SeparablePrefixOf(r.praesens) = <<>> THEN r
    ELSE [r EXCEPT !.separablePrefix = SeparablePrefixOf(r.praesens),
                   !.praesens = [r.praesens EXCEPT
                       !["sg1"] = <<Head(r.praesens["sg1"])>>]]

\* Lines 161-174 on the object of line 64: separablePrefix is assigned, no
\* other field is.
DetectSeparablePrefix(r) ==
    [r EXCEPT !.separablePrefix = SeparablePrefixOf(r.praesens)]


\* A mutant of parseConjugations: a text no section is found in gives null.
parseConjugationsNullNoTable(text) ==
    IF text = <<>> \/ \A t \in {"praesens", "praeteritum", "perfekt"} :
                          ~ SectionMatch(text, t).matched
    THEN [isNull |-> TRUE, threw |-> FALSE, value |-> EmptyParsedVerb]
    ELSE [isNull |-> FALSE,
          threw |-> \E n \in 1..Len(Tenses) : ParseTense(text, Tenses[n]).threw,
          value |-> DetectSeparablePrefix(ParsedTables(text))]

\* parseConjugations, lines 61-177.  isNull: line 62 returned null; threw: an
\* exception left the function; value: the object of line 176.
parseConjugations(text) ==
    IF text = <<>>
    THEN [isNull |-> TRUE, threw |-> FALSE, value |-> EmptyParsedVerb]
    ELSE [isNull |-> FALSE,
          threw |-> \E n \in 1..Len(Tenses) : ParseTense(text, Tenses[n]).threw,
          value |-> DetectSeparablePrefix(ParsedTables(text))]

\* ------------------------------------------------- the pages of the server

\* The cells of the six rows of a tense's section (a seventh for a section
\* with a row too many), for the verb the page is about.
PraesensSg1(verb) ==
    CASE verb = "aufstehen" -> <<"ich", " ", "<a>", "stehe", "</a>", " ", "auf">>
      [] verb = "gehen" -> <<"ich", " ", "gehe", ",", " ", "ich", " ", "geh", " ", "los">>
      [] verb = "ansehen" -> <<"ich", " ", "sehe", " ", "mich", " ", "an">>
      [] OTHER -> <<"ich", " ", "stehe", " ", "wieder", "&nbsp;", "auf", "<sup>", "1", "</sup>">>

CellsOf(t, verb) ==
    CASE t = "praesens" ->
           << PraesensSg1(verb),
              <<"du", " ", "stehst">>, <<"er/sie/es", " ", "steht">>,
              <<"wir", " ", "stehen">>, <<"ihr", " ", "stehet">>,
              <<"sie", " ", "stehn">>, <<"man", " ", "steht">> >>
      [] t = "praeteritum" ->
           << <<"ich", " ", "stand">>,
              <<"du", " ", "standst", ",", " ", "du", " ", "standest">>,
              <<"er/sie/es", " ", "stund">>, <<"wir", " ", "standen">>,
              <<"ihr", " ", "standet">>, <<"sie", " ", "stunden">>,
              <<"man", " ", "stand">> >>
      [] t = "perfekt" ->
           << <<"ich", " ", "bin", " ", "gestanden">>, <<"du", " ", "bist", " ", "gestanden">>,
              <<"er/sie/es", " ", "ist", " ", "gestanden">>,
              <<"wir", " ", "sind", " ", "gestanden">>,
              <<"ihr", " ", "seid", " ", "gestanden">>,
              <<"sie", " ", "seien", " ", "gestanden">>, <<EmDash>> >>
      [] OTHER ->
           << <<"ich", " ", "werde">>, <<"du", " ", "wirst">>,
              <<"er/sie/es", " ", "wird">>, <<"wir", " ", "werden">>,
              <<"ihr", " ", "werdet">>, <<"sie", " ", "wuerden">>, <<EmDash>> >>

\* The heading cell of a tense's section.
HeadingCell(t, span) ==
    <<Piece("tdc")>> \o (IF span THEN <<Piece("span")>> ELSE <<>>)
        \o <<Piece("b"), LabelPiece(TenseLabel(t))>>

\* The first n rows of a tense's section.
RowsFor(t, verb, n, attrs) ==
    [m \in 1..n |-> RowPiece(attrs, <<"Person", " ", ToString(m)>>,
                             CellsOf(t, verb)[m])]

\* A tense's section, in one of the ways the pages of the wiki have it:
\*   full    the heading cell and six rows
\*   long    the heading cell and seven rows
\*   short   the heading cell and three rows
\*   nohead  six rows without a heading cell
\*   nospan  six rows under a heading cell that has no <span
\*   plain   six rows whose first cells carry no attributes
\*   absent  nothing
Section(t, verb, kind) ==
    CASE kind = "full" -> HeadingCell(t, TRUE) \o RowsFor(t, verb, 6, TRUE)
      [] kind = "long" -> HeadingCell(t, TRUE) \o RowsFor(t, verb, 7, TRUE)
      [] kind = "short" -> HeadingCell(t, TRUE) \o RowsFor(t, verb, 3, TRUE)
      [] kind = "nohead" -> RowsFor(t, verb, 6, TRUE)
      [] kind = "nospan" -> HeadingCell(t, FALSE) \o RowsFor(t, verb, 6, TRUE)
      [] kind = "plain" -> HeadingCell(t, TRUE) \o RowsFor(t, verb, 6, FALSE)
      [] OTHER -> <<>>

\* The h2 heading of the page of a verb; one of the verbs has none.
HeadingOf(verb) ==
    CASE verb = "aufstehen" ->
           <<H2Piece(<<"<a>", "aufstehen", "</a>", " ", "(Konjugation)">>)>>
      [] verb = "gehen" -> <<H2Piece(<<"gehen", "(Konjugation)">>)>>
      [] verb = "ansehen" -> <<H2Piece(<<"ansehen", " ", "(Flexion)">>)>>
      [] OTHER -> <<>>

\* The text of a page: the heading, the table of the four past and present
\* tenses, the table of the two future tenses.  An empty page has no text.
Markup(p) ==
    IF p.empty THEN <<>>
    ELSE <<Piece("txt")>> \o HeadingOf(p.verb)
         \o Section("praesens", p.verb, p.praesens)
         \o Section("praeteritum", p.verb, p.praeteritum)
         \o Section("perfekt", p.verb, p.perfekt)
         \o Section("plusquamperfekt", p.verb, p.plusquamperfekt)
         \o <<Piece("endt")>>
         \o (IF p.futur1 = "absent" /\ p.futur2 = "absent" THEN <<>>
             ELSE Section("futur1", p.verb, p.futur1)
                  \o Section("futur2", p.verb, p.futur2)
                  \o <<Piece("endt")>>)

Verbs == {"aufstehen", "gehen", "ansehen", "auferstehen"}

\* The pages the parser is followed on.
TablePages ==
    [empty : {FALSE}, verb : Verbs,
     praesens : {"full", "short", "nohead", "absent", "plain"},
     praeteritum : {"full", "long", "absent", "nospan"},
     perfekt : {"full", "short", "absent"},
     plusquamperfekt : {"full", "absent"},
     futur1 : {"full", "absent"},
     futur2 : {"full", "absent"}]

EmptyPage ==
    [empty |-> TRUE, verb |-> "gehen", praesens |-> "absent",
     praeteritum |-> "absent", perfekt |-> "absent",
     plusquamperfekt |-> "absent", futur1 |-> "absent", futur2 |-> "absent"]

Pages ==
    TablePages \cup {EmptyPage}

\* The tenses main() tests, in the order it tests them.
RequiredTenses == <<"praesens", "praeteritum", "perfekt">>

\* scrape.js lines 149-173: the required tenses whose forms are all there.
RECURSIVE ValidFrom(_, _)
ValidFrom(conjugations, k) ==
    IF k > Len(RequiredTenses) THEN <<>>
    ELSE LET t == RequiredTenses[k]
         IN  (IF hasAllForms(conjugations[t])
              THEN << [tense |-> t, forms |-> conjugations[t]] >>
              ELSE <<>>) \o ValidFrom(conjugations, k + 1)


\* A mutant of validTenses: every parsed tense that is complete is selected,
\* the optional ones after the required ones.
RECURSIVE ValidFromAll(_, _)
ValidFromAll(conjugations, k) ==
    IF k > Len(Tenses) THEN <<>>
    ELSE LET t == Tenses[k]
         IN  (IF hasAllForms(conjugations[t])
              THEN << [tense |-> t, forms |-> conjugations[t]] >>
              ELSE <<>>) \o ValidFromAll(conjugations, k + 1)

validTensesAll(conjugations) ==
    ValidFromAll(conjugations, 1)

validTenses(conjugations) ==
    ValidFrom(conjugations, 1)


\* A mutant of Accepted: two valid tenses are enough.
AcceptedTwo(conjugations) ==
    ~ (Len(validTenses(conjugations)) < 2)

\* scrape.js line 176: the verb is written only with all three tenses valid.
Accepted(conjugations) ==
    ~ (Len(validTenses(conjugations)) < 3)

\* ------------------------------------------------------------------ api.js

RATE_LIMIT_MS == 100

\* HTTP statuses the server answers with.
Statuses == {200, 404, 429, 500}

\* Response.ok: the status is in 200..299.
ResponseOk(status) ==
    status >= 200 /\ status <= 299

\* Error messages, token by token.
RateLimitMessage ==
    <<"RATE_LIMIT", ": Too many requests. Please wait and try again.">>

HttpErrorMessage(status) == 
    <<"HTTP error: ", ToString(status), " ", "statusText">>

\* The SyntaxError of response.json() on a body that is not JSON.
JsonErrorMessage ==
    <<"Unexpected token", " in JSON">>


\* A mutant of StartsWithRateLimit: every error is taken for the rate limit.
StartsWithRateLimitAny(message) ==
    message # <<>>

\* error.message.startsWith("RATE_LIMIT")
StartsWithRateLimit(message) ==
    message # <<>> /\ Head(message) = "RATE_LIMIT"


\* A mutant of apiOutcome: response.ok is tested before the status 429, so a
\* 429 becomes a generic HTTP error.
apiOutcomeOkFirst(status, body) ==
    IF ~ ResponseOk(status)
    THEN [threw |-> TRUE, message |-> HttpErrorMessage(status)]
    ELSE IF ~ body.json
         THEN [threw |-> TRUE, message |-> JsonErrorMessage]
         ELSE [threw |-> FALSE, value |-> body]

\* apiRequest lines 48-58: what one response becomes.
apiOutcome(status, body) ==
    IF status = 429
    THEN [threw |-> TRUE, message |-> RateLimitMessage]
    ELSE IF ~ ResponseOk(status)
         THEN [threw |-> TRUE, message |-> HttpErrorMessage(status)]
         ELSE IF ~ body.json
              THEN [threw |-> TRUE, message |-> JsonErrorMessage]
              ELSE [threw |-> FALSE, value |-> body]

\* A response body that is not JSON.
NotJson == [json |-> FALSE]

\* The server's answer to a categorymembers request for a category: the
\* titles of the page asked for, and the token of the next page if any.
CategoryBody(pages, token) ==
    LET k == PageOfToken(token)
    IN  [json |-> TRUE,
         categorymembers |-> pages[k],
         cmcontinue |-> IF k < Len(pages) THEN TokenNames[k + 1] ELSE Null]


\* A mutant of getCategoryMembers: the token of the answer is dropped.
getCategoryMembersNoToken(data) ==
    [members |-> data.categorymembers, continueToken |-> Null]

\* getCategoryMembers lines 86-89, on the data apiRequest returned.
getCategoryMembers(data) ==
    [members |-> data.categorymembers, continueToken |-> data.cmcontinue]

\* The server's answer to a parse request: the page's text, or an error
\* object without parse.text when the page does not exist.
PageBody == [json |-> TRUE, parse |-> TRUE]

MissingPageBody == [json |-> TRUE, parse |-> FALSE]

\* What a page request can meet: an error status, a body that is not JSON, a
\* missing page, or a page with the conjugations its text parses to.
FetchAnswers ==
    {[status |-> st, body |-> NotJson, conjugations |-> NoParse] : st \in Statuses}
    \cup {[status |-> 200, body |-> MissingPageBody, conjugations |-> NoParse]}
    \cup {[status |-> 200, body |-> PageBody, conjugations |-> c] : c \in PageResults}

\* What the request for a title met, read off the answer itself: the status,
\* the body, and the slots of the three tenses the store is to hold.
SlotFilled(forms, form) ==
    /\ form \in DOMAIN forms
    /\ forms[form] \notin {<<>>, <<EmDash>>}
    /\ \E k \in 1..Len(forms[form]) : forms[form][k] # " "

TrioComplete(parsed) ==
    \A t \in {"praesens", "praeteritum", "perfekt"} :
        \A f \in {"sg1", "sg2", "sg3", "pl1", "pl2", "pl3"} : SlotFilled(parsed[t], f)

RequestKind(status, isJson) ==
    CASE status = 429 -> "status429"
      [] status # 429 /\ status \notin 200..299 -> "httperror"
      [] OTHER -> IF isJson THEN "ok" ELSE "notjson"

AnswerKind(status, body, parsed) ==
    IF RequestKind(status, body.json) # "ok"
    THEN RequestKind(status, body.json)
    ELSE IF ~ body.parse
         THEN "nopage"
         ELSE IF TrioComplete(parsed) THEN "complete" ELSE "incomplete"

\* getPageText line 148: data.parse?.text?.["*"] || null.
getPageText(data) ==
    IF data.parse THEN "text" ELSE Null

\* ---------------------------------------------------- db.js and schema.sql

EmptyDb == [verbs |-> {}, conj |-> {}, seq |-> 0]

\* insertVerb: INSERT OR REPLACE INTO verbs.  UNIQUE (infinitive) makes REPLACE
\* delete the row of the same infinitive (and, by ON DELETE CASCADE, its
\* verb_conjugations rows) before the new row is inserted; AUTOINCREMENT gives
\* the new row an id above every id used before.
insertVerbId(d) ==
    d.seq + 1


\* A mutant of insertVerb: INSERT OR IGNORE, the row of the same infinitive
\* is kept as it is.
insertVerbKeepOld(d, infinitive, separablePrefix, usagePopularity) ==
    IF \E v \in d.verbs : v.infinitive = infinitive
    THEN [d EXCEPT !.seq = insertVerbId(d)]
    ELSE [verbs |-> d.verbs \cup {[id |-> insertVerbId(d),
                                   infinitive |-> infinitive,
                                   separable_prefix |-> separablePrefix,
                                   is_irregular |-> 1,
                                   usage_popularity |-> usagePopularity]},
          conj |-> d.conj,
          seq |-> insertVerbId(d)]

insertVerb(d, infinitive, separablePrefix, usagePopularity) ==
    LET old == {v \in d.verbs : v.infinitive = infinitive}
        oldIds == {v.id : v \in old}
        row == [id |-> insertVerbId(d),
                infinitive |-> infinitive,
                separable_prefix |-> separablePrefix,
                is_irregular |-> 1,
                usage_popularity |-> usagePopularity]
    IN  [verbs |-> (d.verbs \ old) \cup {row},
         conj |-> {c \in d.conj : c.verb_id \notin oldIds},
         seq |-> insertVerbId(d)]

\* insertConjugation: INSERT OR REPLACE INTO verb_conjugations, whose primary
\* key is (verb_id, tense).
insertConjugation(d, verbId, tense, forms) ==
    LET old == {c \in d.conj : c.verb_id = verbId /\ c.tense = tense}
    IN  [d EXCEPT !.conj = (d.conj \ old)
                     \cup {[verb_id |-> verbId, tense |-> tense, forms |-> forms]}]

\* ORDER BY v.infinitive over the single-word infinitives the store can hold.
InfinitiveOrder == << <<"aufstehen">>, <<"gehen">> >>

\* getIncompleteVerbs: the verbs with fewer than three of the required
\* tenses, ordered by infinitive.
IsIncomplete(d, v) ==
    Cardinality({c.tense : c \in {x \in d.conj : x.verb_id = v.id
        /\ x.tense \in {RequiredTenses[k] : k \in 1..Len(RequiredTenses)}}}) < 3

RECURSIVE IncompleteFrom(_, _)
IncompleteFrom(d, k) ==
    IF k > Len(InfinitiveOrder) THEN <<>>
    ELSE (IF \E v \in d.verbs : v.infinitive = InfinitiveOrder[k] /\ IsIncomplete(d, v)
          THEN << InfinitiveOrder[k] >>
          ELSE <<>>) \o IncompleteFrom(d, k + 1)

getIncompleteVerbs(d) ==
    IncompleteFrom(d, 1)

\* scrape.js line 81: `Flexion:${v.infinitive}` for each incomplete verb.
IncompleteTitles(d) ==
    LET vs == getIncompleteVerbs(d)
    IN  [k \in 1..Len(vs) |-> <<"Flexion:">> \o vs[k]]

\* ---------------------------------------------------------------- state.js

\* getDefaultState, and the literal of scrape.js lines 50-56.
getDefaultState ==
    [phase |-> "fetching_verbs",
     verbListContinueToken |-> Null,
     verbList |-> <<>>,
     processedVerbIndex |-> -1]

\* ------------------------------------------------- scrape.js: main's state

VARIABLES
    category,        \* the server's category: a sequence of pages of titles
    hasFile,         \* existsSync(STATE_FILE)
    file,            \* the ScraperState last written to .scraper-state.json
    fileKind,        \* what the file holds: "state" (the JSON of file),
                     \* "garbage" (no JSON) or "null" (the JSON null)
    db,              \* german-verbs.db
    pc,              \* where the process is; "idle" when none runs
    resume,          \* main's resume, after lines 42-45
    incompleteMode,  \* main's incompleteMode
    state,           \* main's state
    i,               \* the loop index of lines 114-219
    startIndex,      \* line 111
    verbId,          \* line 186
    conjugations,    \* line 138, while lines 186-201 write the verb
    pending,         \* the validTenses lines 194-201 have not yet written
    exitCode,        \* "none" while running, then "0", "1" or "killed"
    runs,            \* how many times the process was started
    touched,         \* history: the indices this run has handled, in order
    fetched,         \* history: the indices this run has requested a page for
    written,         \* history: the indices this run has called insertVerb for
    outcome,         \* history: how the last title was handled
    rlIndex,         \* history: {k} after a 429 stop at title k, else {}
    answer           \* history: what the request for the last title met

\* api.js: the module's clock state and the apiRequest calls in progress.
VARIABLES
    now,             \* Date.now()
    lastRequestTime, \* api.js line 8
    rpc,             \* per caller: "idle", "waiting" (line 23), "fetching" (line 46)
    wakeAt,          \* per caller: when the timer of line 23 is due
    req,             \* per caller: the request of its call
    fetches,         \* per caller: outbound calls its call has issued
    resp,            \* per caller: the status and body its call was answered with
    result,          \* per caller: what its call returned or threw
    issued,          \* history: every outbound call: when, what, after a wait
    nCalls           \* how many calls of apiRequest were made

\* parser.js: a call of parseConjugations.
VARIABLES
    page,            \* the page whose text is parsed
    parsedVerb       \* what the call returned; called: it was made

\* db.js: a call of insertVerb or insertConjugation made on the store.
VARIABLES
    stored           \* history: the last call, what it met and returned

\* The variables of main() and its files, and those of api.js.
pvars ==
    <<category, hasFile, file, fileKind, db, pc, resume, incompleteMode, state, i,
      startIndex, verbId, conjugations, pending, exitCode, runs, touched,
      fetched, written, outcome, rlIndex, answer>>

lvars ==
    <<now, lastRequestTime, rpc, wakeAt, req, fetches, resp, result, issued,
      nCalls>>

\* The variables of the calls of parser.js and db.js followed on their own.
avars ==
    <<page, parsedVerb, stored>>

vars ==
    <<pvars, lvars, avars>>

\* JSON.parse(readFileSync(STATE_FILE)) of loadState lines 305-306: it throws
\* on text that is no JSON, returns null for the JSON null, and else the
\* value written.
JsonParse ==
    [threw |-> fileKind = "garbage", isNull |-> fileKind = "null", value |-> file]


\* A mutant of loadState: the file is not read.
loadStateDefault ==
    [isNull |-> FALSE, value |-> getDefaultState]

\* loadState: the default state without a file or when JSON.parse throws,
\* else whatever JSON.parse returned (isNull: it returned null).
loadState ==
    IF ~ hasFile \/ JsonParse.threw
    THEN [isNull |-> FALSE, value |-> getDefaultState]
    ELSE [isNull |-> JsonParse.isNull, value |-> JsonParse.value]

\* saveState(s): the file is rewritten with the JSON of s.
saveState(s) ==
    /\ hasFile' = TRUE
    /\ file' = s
    /\ fileKind' = "state"

\* The title at loop index k (verbList is 0-based in the code).
TitleAt(s, k) ==
    s.verbList[k + 1]


\* A mutant of StartIndexOf: the loop starts at the cursor itself.
StartIndexAtCursor(s) ==
    s.processedVerbIndex

\* Line 111: the index the loop starts at.
StartIndexOf(s) ==
    s.processedVerbIndex + 1


\* Mutants of RateLimitCursor: the cursor moves past the title that failed;
\* the cursor goes back over a title that was done.
RateLimitCursorKeep(k) ==
    k

RateLimitCursorTwoBack(k) ==
    k - 2

\* Line 210: the cursor written when title k hit the rate limit.
RateLimitCursor(k) ==
    k - 1


\* A mutant of DoneCursor: the cursor written is that of the title before.
DoneCursorBehind(k) ==
    k - 1

\* Lines 122, 133, 143, 180, 217: the cursor written when title k is done.
DoneCursor(k) ==
    k

\* The process has ended: its locals are gone.
ProcessEnds(code) ==
    /\ pc' = "idle"
    /\ exitCode' = code
    /\ i' = 0
    /\ startIndex' = 0
    /\ verbId' = 0
    /\ conjugations' = NoParse
    /\ pending' = <<>>

\* Before the first call of apiRequest.  Date.now() is far above
\* RATE_LIMIT_MS; no caller has a call in progress.
Callers == {"c1", "c2"}

NoRequest == [kind |-> "none", lang |-> "none"]

NoResponse == [status |-> 0, body |-> NotJson]

NoResult == [threw |-> FALSE, value |-> NotJson]

LimiterInit ==
    /\ now = Epoch
    /\ lastRequestTime = 0
    /\ rpc = [c \in Callers |-> "idle"]
    /\ wakeAt = [c \in Callers |-> 0]
    /\ req = [c \in Callers |-> NoRequest]
    /\ fetches = [c \in Callers |-> 0]
    /\ resp = [c \in Callers |-> NoResponse]
    /\ result = [c \in Callers |-> NoResult]
    /\ issued = <<>>
    /\ nCalls = 0

\* The scraper before its first run: no state file, an empty store.
MainInit ==
    /\ category \in Categories
    /\ hasFile = FALSE
    /\ file = getDefaultState
    /\ fileKind = "state"
    /\ db = EmptyDb
    /\ pc = "idle"
    /\ resume = FALSE
    /\ incompleteMode = FALSE
    /\ state = getDefaultState
    /\ i = 0
    /\ startIndex = 0
    /\ verbId = 0
    /\ conjugations = NoParse
    /\ pending = <<>>
    /\ exitCode = "none"
    /\ runs = 0
    /\ touched = <<>>
    /\ fetched = {}
    /\ written = {}
    /\ outcome = "none"
    /\ rlIndex = {}
    /\ answer = "none"

\* No call of parseConjugations was made.
NotParsed ==
    [called |-> FALSE, isNull |-> FALSE, threw |-> FALSE, value |-> EmptyParsedVerb]

\* No call was made on the store.
NotStored ==
    [calls |-> 0, op |-> "none", infinitive |-> <<>>, usagePopularity |-> 0,
     id |-> 0, tense |-> "none", threw |-> FALSE, before |-> {}]

Init ==
    /\ LimiterInit
    /\ MainInit
    /\ page = EmptyPage
    /\ parsedVerb = NotParsed
    /\ stored = NotStored

\* Lines 38-74 and the tests of lines 108 and 226: a process starts; it
\* resumes only with the flag and a state file, and enters the phase of its
\* state.  When loadState returned null, line 60 reads state.lastUpdated of
\* null: the TypeError is thrown before the try of line 72, main's promise is
\* rejected and lines 271-274 exit with code 1.
StartRun(r, im) ==
    /\ pc = "idle"
    /\ runs < MaxRuns
    /\ runs' = runs + 1
    /\ resume' = (r /\ hasFile)
    /\ incompleteMode' = im
    /\ IF resume' /\ loadState.isNull
       THEN /\ state' = state
            /\ pc' = "idle"
            /\ exitCode' = "1"
       ELSE /\ state' = IF resume' THEN loadState.value ELSE getDefaultState
            /\ pc' = CASE state'.phase = "fetching_verbs" -> "phase1"
                       [] state'.phase = "fetching_conjugations" -> "phase2"
                       [] OTHER -> "phase3"
            /\ exitCode' = "none"
    /\ touched' = <<>>
    /\ fetched' = {}
    /\ written' = {}
    /\ outcome' = "none"
    /\ rlIndex' = IF resume' THEN rlIndex ELSE {}
    /\ answer' = "none"
    /\ UNCHANGED <<category, hasFile, file, fileKind, db, i, startIndex, verbId,
                   conjugations, pending>>
    /\ UNCHANGED <<lvars, avars>>

\* Lines 75-83 and 103-104: verbList is replaced by the incomplete verbs of
\* the store, and phase 2 is checkpointed.
EnumIncomplete ==
    /\ pc = "phase1"
    /\ incompleteMode
    /\ state' = [state EXCEPT !.verbList = IncompleteTitles(db),
                              !.phase = "fetching_conjugations"]
    /\ saveState(state')
    /\ pc' = "phase2"
    /\ UNCHANGED <<category, db, resume, incompleteMode, i, startIndex, verbId,
                   conjugations, pending, exitCode, runs, touched, fetched,
                   written, outcome, rlIndex, answer>>
    /\ UNCHANGED <<lvars, avars>>

\* Lines 88-96 with getAllCategoryMembers lines 107-125: one turn of the
\* do-while.  The page asked for is that of the state's token (the local
\* continueToken and state.verbListContinueToken are equal at every turn);
\* the callback merges the page and checkpoints.  A throw of apiRequest goes
\* to the catch of lines 252-260: checkpoint, exit 1.
EnumPage(status, isJson) ==
    /\ pc \in {"phase1", "enum"}
    /\ ~ incompleteMode
    /\ LET body == IF isJson
                   THEN CategoryBody(category, state.verbListContinueToken)
                   ELSE NotJson
           out == apiOutcome(status, body)
       IN  IF out.threw
           THEN /\ saveState(state)
                /\ state' = state
                /\ ProcessEnds("1")
           ELSE LET got == getCategoryMembers(out.value)
                IN  /\ state' = [state EXCEPT
                           !.verbList = state.verbList \o got.members,
                           !.verbListContinueToken = got.continueToken]
                    /\ saveState(state')
                    /\ pc' = IF got.continueToken # Null THEN "enum" ELSE "enumdone"
                    /\ UNCHANGED <<i, startIndex, verbId, conjugations,
                                   pending, exitCode>>
    /\ answer' = RequestKind(status, isJson)
    /\ UNCHANGED <<category, db, resume, incompleteMode, runs, touched, fetched,
                   written, outcome, rlIndex>>
    /\ UNCHANGED <<lvars, avars>>


\* A mutant of EnumDone: the run is marked completed when the list is there.
EnumDoneCompleted ==
    /\ pc = "enumdone"
    /\ state' = [state EXCEPT !.phase = "completed"]
    /\ saveState(state')
    /\ pc' = "phase2"
    /\ UNCHANGED <<category, db, resume, incompleteMode, i, startIndex, verbId,
                   conjugations, pending, exitCode, runs, touched, fetched,
                   written, outcome, rlIndex, answer>>
    /\ UNCHANGED <<lvars, avars>>

\* Lines 103-104 after the category is exhausted.
EnumDone ==
    /\ pc = "enumdone"
    /\ state' = [state EXCEPT !.phase = "fetching_conjugations"]
    /\ saveState(state')
    /\ pc' = "phase2"
    /\ UNCHANGED <<category, db, resume, incompleteMode, i, startIndex, verbId,
                   conjugations, pending, exitCode, runs, touched, fetched,
                   written, outcome, rlIndex, answer>>
    /\ UNCHANGED <<lvars, avars>>

\* Lines 108-114: the loop is entered at the title after the cursor.
EnterLoop ==
    /\ pc = "phase2"
    /\ startIndex' = StartIndexOf(state)
    /\ i' = startIndex'
    /\ pc' = "loop"
    /\ UNCHANGED <<category, hasFile, file, fileKind, db, resume, incompleteMode,
                   state, verbId, conjugations, pending, exitCode, runs, touched,
                   fetched, written, outcome, rlIndex, answer>>
    /\ UNCHANGED <<lvars, avars>>


\* A mutant of TitleDone: the cursor is set but the checkpoint is not written.
TitleDoneUnsaved(how) ==
    /\ state' = [state EXCEPT !.processedVerbIndex = DoneCursor(i)]
    /\ UNCHANGED <<hasFile, file, fileKind>>
    /\ i' = i + 1
    /\ pc' = "loop"
    /\ outcome' = how
    /\ rlIndex' = {}

\* Lines 217-218 and the other four places a title ends: the cursor is set
\* to the title's index and checkpointed, and the loop goes to the next.
TitleDone(how) ==
    /\ state' = [state EXCEPT !.processedVerbIndex = DoneCursor(i)]
    /\ saveState(state')
    /\ i' = i + 1
    /\ pc' = "loop"
    /\ outcome' = how
    /\ rlIndex' = {}

\* Lines 115-125: a title without infinitive, or with a space in it.
LoopSkip ==
    /\ pc = "loop"
    /\ i < Len(state.verbList)
    /\ ShouldSkipTitle(TitleAt(state, i))
    /\ touched' = Append(touched, i)
    /\ TitleDone("skipped")
    /\ answer' = "none"
    /\ UNCHANGED <<category, db, resume, incompleteMode, startIndex, verbId,
                   conjugations, pending, exitCode, runs, fetched, written>>
    /\ UNCHANGED <<lvars, avars>>

\* Lines 127-191 and 202-218: the page of title i is requested and the
\* answer handled up to the verb's insert.  parsed is what parseConjugations
\* makes of the page's text.
LoopFetch(status, body, parsed) ==
    /\ pc = "loop"
    /\ i < Len(state.verbList)
    /\ ~ ShouldSkipTitle(TitleAt(state, i))
    /\ touched' = Append(touched, i)
    /\ fetched' = fetched \cup {i}
    /\ answer' = AnswerKind(status, body, parsed)
    /\ LET out == apiOutcome(status, body)
       IN  IF out.threw
           THEN IF StartsWithRateLimit(out.message)
                THEN /\ state' = [state EXCEPT
                            !.processedVerbIndex = RateLimitCursor(i)]
                     /\ saveState(state')
                     /\ ProcessEnds("1")
                     /\ outcome' = "ratelimit"
                     /\ rlIndex' = {i}
                     /\ UNCHANGED <<db, written>>
                ELSE /\ TitleDone("error")
                     /\ UNCHANGED <<db, written, startIndex, verbId,
                                    conjugations, pending, exitCode>>
           ELSE IF getPageText(out.value) = Null
                THEN /\ TitleDone("nopage")
                     /\ UNCHANGED <<db, written, startIndex, verbId,
                                    conjugations, pending, exitCode>>
                ELSE IF ~ Accepted(parsed)
                     THEN /\ TitleDone("rejected")
                          /\ UNCHANGED <<db, written, startIndex, verbId,
                                         conjugations, pending, exitCode>>
                     ELSE /\ db' = insertVerb(db,
                                     extractInfinitiveFromTitle(TitleAt(state, i)),
                                     "", 0)
                          /\ verbId' = insertVerbId(db)
                          /\ conjugations' = parsed
                          /\ pending' = validTenses(parsed)
                          /\ written' = written \cup {i}
                          /\ pc' = "conj"
                          /\ outcome' = "accepted"
                          /\ UNCHANGED <<hasFile, file, fileKind, state, i,
                                         startIndex, exitCode, rlIndex>>
    /\ UNCHANGED <<category, resume, incompleteMode, runs>>
    /\ UNCHANGED <<lvars, avars>>

\* Lines 194-201: one turn of the loop over validTenses.
InsertConj ==
    /\ pc = "conj"
    /\ pending # <<>>
    /\ db' = insertConjugation(db, verbId, Head(pending).tense, Head(pending).forms)
    /\ pending' = Tail(pending)
    /\ UNCHANGED <<category, hasFile, file, fileKind, pc, resume, incompleteMode,
                   state, i, startIndex, verbId, conjugations, exitCode, runs,
                   touched, fetched, written, outcome, rlIndex, answer>>
    /\ UNCHANGED <<lvars, avars>>

\* Lines 217-218 for a written verb.
LoopAdvance ==
    /\ pc = "conj"
    /\ pending = <<>>
    /\ TitleDone("accepted")
    /\ conjugations' = NoParse
    /\ UNCHANGED <<category, db, resume, incompleteMode, startIndex, verbId,
                   pending, exitCode, runs, touched, fetched, written, answer>>
    /\ UNCHANGED <<lvars, avars>>


\* A mutant of LoopEnd: the phase is set but the checkpoint is not written.
LoopEndUnsaved ==
    /\ pc = "loop"
    /\ ~ (i < Len(state.verbList))
    /\ state' = [state EXCEPT !.phase = "completed"]
    /\ pc' = "phase3"
    /\ UNCHANGED <<hasFile, file, fileKind>>
    /\ UNCHANGED <<category, db, resume, incompleteMode, i, startIndex, verbId,
                   conjugations, pending, exitCode, runs, touched, fetched,
                   written, outcome, rlIndex, answer>>
    /\ UNCHANGED <<lvars, avars>>

\* Lines 221-222: every title is handled.
LoopEnd ==
    /\ pc = "loop"
    /\ ~ (i < Len(state.verbList))
    /\ state' = [state EXCEPT !.phase = "completed"]
    /\ saveState(state')
    /\ pc' = "phase3"
    /\ UNCHANGED <<category, db, resume, incompleteMode, i, startIndex, verbId,
                   conjugations, pending, exitCode, runs, touched, fetched,
                   written, outcome, rlIndex, answer>>
    /\ UNCHANGED <<lvars, avars>>

\* Lines 226-263: the summary is printed and main returns.
Finish ==
    /\ pc = "phase3"
    /\ ProcessEnds("0")
    /\ UNCHANGED <<category, hasFile, file, fileKind, db, resume, incompleteMode,
                   state, runs, touched, fetched, written, outcome, rlIndex,
                   answer>>
    /\ UNCHANGED <<lvars, avars>>

\* The process is terminated from outside, between two of its steps.
Kill ==
    /\ pc # "idle"
    /\ ProcessEnds("killed")
    /\ UNCHANGED <<category, hasFile, file, fileKind, db, resume, incompleteMode,
                   state, runs, touched, fetched, written, outcome, rlIndex,
                   answer>>
    /\ UNCHANGED <<lvars, avars>>

Next ==
    \/ \E r \in BOOLEAN, im \in BOOLEAN : StartRun(r, im)
    \/ EnumIncomplete
    \/ \E status \in Statuses, isJson \in BOOLEAN : EnumPage(status, isJson)
    \/ EnumDone
    \/ EnterLoop
    \/ LoopSkip
    \/ \E a \in FetchAnswers : LoopFetch(a.status, a.body, a.conjugations)
    \/ InsertConj
    \/ LoopAdvance
    \/ LoopEnd
    \/ Finish
    \/ Kill

Spec == Init /\ [][Next]_vars

\* ------------------------------------- scrape.js with failing surroundings

\* Lines 186-191 and 202-218: the page of title i is complete and insertVerb
\* throws (the store is locked, full or unwritable).  The error is caught by
\* the catch of line 202; its message does not start with RATE_LIMIT, so line
\* 214 logs it and lines 217-218 go on to the next title.
LoopFetchDbFails(parsed) ==
    /\ pc = "loop"
    /\ i < Len(state.verbList)
    /\ ~ ShouldSkipTitle(TitleAt(state, i))
    /\ ~ apiOutcome(200, PageBody).threw
    /\ getPageText(apiOutcome(200, PageBody).value) # Null
    /\ Accepted(parsed)
    /\ touched' = Append(touched, i)
    /\ fetched' = fetched \cup {i}
    /\ answer' = AnswerKind(200, PageBody, parsed)
    /\ TitleDone("dberror")
    /\ UNCHANGED <<category, db, resume, incompleteMode, startIndex, verbId,
                   conjugations, pending, exitCode, runs, written>>
    /\ UNCHANGED <<lvars, avars>>

\* Lines 194-201 and 202-218: insertConjugation throws for the next tense;
\* the tenses written before stay, and the loop goes on to the next title.
InsertConjFails ==
    /\ pc = "conj"
    /\ pending # <<>>
    /\ TitleDone("dberror")
    /\ conjugations' = NoParse
    /\ pending' = <<>>
    /\ UNCHANGED <<category, db, resume, incompleteMode, startIndex, verbId,
                   exitCode, runs, touched, fetched, written, answer>>
    /\ UNCHANGED <<lvars, avars>>

\* Between two runs the state file comes to hold text that is no JSON (a
\* write that was cut short) or a JSON value that is no ScraperState.
Corrupt(kind) ==
    /\ pc = "idle"
    /\ hasFile
    /\ fileKind = "state"
    /\ fileKind' = kind
    /\ UNCHANGED <<category, hasFile, file, db, pc, resume, incompleteMode,
                   state, i, startIndex, verbId, conjugations, pending, exitCode,
                   runs, touched, fetched, written, outcome, rlIndex, answer>>
    /\ UNCHANGED <<lvars, avars>>

FaultsNext ==
    \/ Next
    \/ \E parsed \in PageResults : LoopFetchDbFails(parsed)
    \/ InsertConjFails
    \/ \E kind \in {"garbage", "null"} : Corrupt(kind)

\* The scraper over a one-page category, with a store whose writes can fail
\* and a state file that can be damaged between runs.
FaultsInit ==
    /\ Init
    /\ category = << <<TOther, TGehen>> >>

SpecFaults == FaultsInit /\ [][FaultsNext]_vars

\* --------------------------------------- scrape.js: runs that are resumed

\* The first start of the scraper, with any flags.
FirstRun(r, im) ==
    /\ runs = 0
    /\ StartRun(r, im)

\* The run has stopped on the rate limit (lines 204-212 and 253-255) or was
\* terminated; it has stopped on another failed request of the enumeration
\* (lines 256-260).
StoppedOnRateLimit ==
    /\ pc = "idle"
    /\ runs > 0
    /\ \/ exitCode = "killed"
       \/ exitCode = "1" /\ answer = "status429"

StoppedOnError ==
    /\ pc = "idle"
    /\ runs > 0
    /\ exitCode = "1"
    /\ answer # "status429"

\* A stopped run is started again with --resume.
RerunStopped(im) ==
    /\ StoppedOnRateLimit
    /\ StartRun(TRUE, im)

RerunFailed(im) ==
    /\ StoppedOnError
    /\ StartRun(TRUE, im)

\* A request fails, or the process is terminated, only while a further run
\* can still be started: failures and terminations are finitely many.
CanFail ==
    runs < MaxRuns

LiveEnumPage(status, isJson) ==
    /\ (status # 200 \/ ~ isJson) => CanFail
    /\ EnumPage(status, isJson)

LiveLoopFetch(status, body, parsed) ==
    /\ status = 429 => CanFail
    /\ LoopFetch(status, body, parsed)

LiveKill ==
    /\ CanFail
    /\ Kill

\* The steps of a running process.
LiveStep ==
    \/ EnumIncomplete
    \/ \E status \in Statuses, isJson \in BOOLEAN : LiveEnumPage(status, isJson)
    \/ EnumDone
    \/ EnterLoop
    \/ LoopSkip
    \/ \E a \in FetchAnswers : LiveLoopFetch(a.status, a.body, a.conjugations)
    \/ InsertConj
    \/ LoopAdvance
    \/ LoopEnd
    \/ Finish

LiveNext ==
    \/ \E r \in BOOLEAN, im \in BOOLEAN : FirstRun(r, im)
    \/ \E im \in BOOLEAN : RerunStopped(im)
    \/ \E im \in BOOLEAN : RerunFailed(im)
    \/ LiveStep
    \/ LiveKill

\* The scraper is started, a running process goes on (every request is
\* answered in the end), and a run that stopped on the rate limit or was
\* terminated is started again.  Whether a run that stopped on another
\* failure is started again is left open.
SpecLive ==
    /\ Init
    /\ [][LiveNext]_vars
    /\ WF_vars(\E r \in BOOLEAN, im \in BOOLEAN : FirstRun(r, im))
    /\ WF_vars(LiveStep)
    /\ WF_vars(\E im \in BOOLEAN : RerunStopped(im))

\* ------------------------------------ frequency.js: the frequency update

\* The map getGermanWordsFrequences returns: the words of the two frequency
\* lists with their counts.  gehen is on the lists.
FrequencyMaps ==
    { [w \in { <<"gehen">> } |-> 7], [w \in {} |-> 0] }

\* frequency.js lines 208-232: usage_popularity is set for every verb of the
\* store whose infinitive is a word of the map; no other row or column is
\* written.
updateFrequencies(d, freqMap) ==
    [d EXCEPT !.verbs =
        {IF v.infinitive \in DOMAIN freqMap
         THEN [v EXCEPT !.usage_popularity = freqMap[v.infinitive]]
         ELSE v : v \in d.verbs}]

\* npm run update-frequencies, between two runs of the scraper.
UpdateFrequencies(freqMap) ==
    /\ pc = "idle"
    /\ db' = updateFrequencies(db, freqMap)
    /\ UNCHANGED <<category, hasFile, file, fileKind, pc, resume, incompleteMode,
                   state, i, startIndex, verbId, conjugations, pending, exitCode,
                   runs, touched, fetched, written, outcome, rlIndex, answer>>
    /\ UNCHANGED <<lvars, avars>>

FreqNext ==
    \/ Next
    \/ \E freqMap \in FrequencyMaps : UpdateFrequencies(freqMap)

\* The scraper over a one-page category and the frequency update.
SpecFreq == FaultsInit /\ [][FreqNext]_vars

\* ------------------------------------------ api.js: the rate-limited client

\* The requests the callers make: getCategoryMembers, getPageText on the
\* German wiki, and getPageText of getGermanWordsFrequences on the English.
Requests ==
    { [kind |-> "categorymembers", lang |-> "de"],
      [kind |-> "parse", lang |-> "de"],
      [kind |-> "parse", lang |-> "en"] }

\* The bodies the server can answer a request with.
BodiesFor(r) ==
    IF r.kind = "categorymembers"
    THEN {NotJson, CategoryBody(<< <<TGehen>>, <<TAufstehen>> >>, Null)}
    ELSE {NotJson, PageBody, MissingPageBody}

\* waitForRateLimit line 19, with t the value of Date.now() of line 18.
timeSinceLastRequest(t) ==
    t - lastRequestTime

\* Line 21: the call has to wait.
MustWait(t) ==
    timeSinceLastRequest(t) < RATE_LIMIT_MS


\* A mutant of waitTime: the call waits for the time that has passed, not for
\* the time that is left.
waitTimeElapsed(t) ==
    timeSinceLastRequest(t)

\* Line 22.
waitTime(t) ==
    RATE_LIMIT_MS - timeSinceLastRequest(t)

\* Line 26 and apiRequest lines 39-46, at time t: the clock of the limiter is
\* set and the one outbound call of caller c is issued.  No time passes in
\* this synchronous stretch of code.
IssueFetch(c, r, t, n) ==
    /\ lastRequestTime' = t
    /\ issued' = Append(issued, [at |-> t, req |-> r, waited |-> rpc[c] = "waiting"])
    /\ fetches' = [fetches EXCEPT ![c] = n + 1]
    /\ rpc' = [rpc EXCEPT ![c] = "fetching"]

\* apiRequest is called (line 37) and waitForRateLimit runs to its timer, or,
\* when no wait is due, through to the fetch.
StartCall(c, r) ==
    /\ rpc[c] = "idle"
    /\ nCalls < MaxCalls
    /\ nCalls' = nCalls + 1
    /\ req' = [req EXCEPT ![c] = r]
    /\ resp' = [resp EXCEPT ![c] = NoResponse]
    /\ result' = [result EXCEPT ![c] = NoResult]
    /\ now' = now
    /\ IF MustWait(now)
       THEN /\ rpc' = [rpc EXCEPT ![c] = "waiting"]
            /\ wakeAt' = [wakeAt EXCEPT ![c] = now + waitTime(now)]
            /\ fetches' = [fetches EXCEPT ![c] = 0]
            /\ UNCHANGED <<lastRequestTime, issued>>
       ELSE /\ IssueFetch(c, r, now, 0)
            /\ UNCHANGED wakeAt
    /\ UNCHANGED <<pvars, avars>>

\* The pipeline awaits every call before it makes the next one.
SeqStartCall(c, r) ==
    /\ \A d \in Callers : rpc[d] = "idle"
    /\ StartCall(c, r)

\* The timer of line 23 fires, when it is due or later, and the call goes on
\* to line 26 and the fetch.
TimerFires(c) ==
    /\ rpc[c] = "waiting"
    /\ now' = IF now < wakeAt[c] THEN wakeAt[c] ELSE now
    /\ IssueFetch(c, req[c], now', fetches[c])
    /\ wakeAt' = [wakeAt EXCEPT ![c] = 0]
    /\ UNCHANGED <<req, resp, result, nCalls>>
    /\ UNCHANGED <<pvars, avars>>

\* The fetch of line 46 is answered and lines 48-58 end the call.
Respond(c, status, body) ==
    /\ rpc[c] = "fetching"
    /\ resp' = [resp EXCEPT ![c] = [status |-> status, body |-> body]]
    /\ result' = [result EXCEPT ![c] = apiOutcome(status, body)]
    /\ rpc' = [rpc EXCEPT ![c] = "idle"]
    /\ UNCHANGED <<now, lastRequestTime, wakeAt, req, fetches, issued, nCalls>>
    /\ UNCHANGED <<pvars, avars>>

\* Time passes while the code is suspended or between two calls.
Tick ==
    /\ now - Epoch < Horizon
    /\ now' = now + TickMs
    /\ UNCHANGED <<lastRequestTime, rpc, wakeAt, req, fetches, resp, result,
                   issued, nCalls>>
    /\ UNCHANGED <<pvars, avars>>

\* The one flow of control of the pipeline.
SeqCallers == {"c1"}

SeqNext ==
    \/ \E c \in SeqCallers, r \in Requests : SeqStartCall(c, r)
    \/ \E c \in SeqCallers : TimerFires(c)
    \/ \E c \in SeqCallers, status \in Statuses :
          \E body \in BodiesFor(req[c]) : Respond(c, status, body)
    \/ Tick

\* The limiter is followed for one category; main() does not run.
SeqInit ==
    /\ Init
    /\ category = << <<TGehen, TSichFreuen>>, <<TAufstehen>> >>

\* The calls of apiRequest of one process, made one after the other.
SpecSeq == SeqInit /\ [][SeqNext]_vars

\* ------------------------------------------- parser.js: one call of the parser

\* Line 138 of scrape.js, or a test: parseConjugations is called with the
\* text of the page and returns.
ParsePage ==
    /\ ~ parsedVerb.called
    /\ parsedVerb' = [called |-> TRUE,
                      isNull |-> parseConjugations(Markup(page)).isNull,
                      threw |-> parseConjugations(Markup(page)).threw,
                      value |-> parseConjugations(Markup(page)).value]
    /\ UNCHANGED <<page, stored>>
    /\ UNCHANGED <<pvars, lvars>>

ParseNext ==
    ParsePage

\* The parser is followed on every page of Pages; main() does not run.
ParseInit ==
    /\ LimiterInit
    /\ MainInit
    /\ category = << <<>> >>
    /\ page \in Pages
    /\ parsedVerb = NotParsed
    /\ stored = NotStored

\* One call of parseConjugations on one page.
SpecParse == ParseInit /\ [][ParseNext]_vars

\* ------------------------------------------------- db.js: calls on the store

\* How many calls are made on the store in one behaviour.
MaxStoreCalls == 4

\* The values the calls are made with.
StoreInfinitives == { <<"gehen">>, <<"aufstehen">> }

StorePopularities == {0, 7}

StoreTenses == {"praesens", "perfekt"}

StoreForms == {FullForms(<<"gehe">>), FullForms(<<"ging">>)}


\* A mutant of the pragma: foreign keys are not enforced.
ForeignKeyFree(d, id) ==
    TRUE

\* PRAGMA foreign_keys = ON (db.js line 129) with the FOREIGN KEY of
\* verb_conjugations: a row can be written only for the id of a verb.
ForeignKeyOk(d, id) ==
    \E v \in d.verbs : v.id = id

\* insertVerb is called from outside main(): lines 146-176.
StoreInsertVerb(infinitive, usagePopularity) ==
    /\ stored.calls < MaxStoreCalls
    /\ db' = insertVerb(db, infinitive, "", usagePopularity)
    /\ stored' = [calls |-> stored.calls + 1,
                  op |-> "verb", infinitive |-> infinitive,
                  usagePopularity |-> usagePopularity,
                  id |-> insertVerbId(db), tense |-> "none", threw |-> FALSE,
                  before |-> {v \in db.verbs : v.infinitive = infinitive}]
    /\ UNCHANGED <<category, hasFile, file, fileKind, pc, resume, incompleteMode,
                   state, i, startIndex, verbId, conjugations, pending, exitCode,
                   runs, touched, fetched, written, outcome, rlIndex, answer>>
    /\ UNCHANGED <<page, parsedVerb>>
    /\ UNCHANGED lvars

\* insertConjugation is called from outside main(): lines 183-193.  The
\* statement throws for an id that is not the id of a verb.
StoreInsertConjugation(id, tense, forms) ==
    /\ stored.calls < MaxStoreCalls
    /\ IF ForeignKeyOk(db, id)
       THEN db' = insertConjugation(db, id, tense, forms)
       ELSE db' = db
    /\ stored' = [calls |-> stored.calls + 1,
                  op |-> "conj", infinitive |-> <<>>, usagePopularity |-> 0,
                  id |-> id, tense |-> tense, threw |-> ~ ForeignKeyOk(db, id),
                  before |-> {}]
    /\ UNCHANGED <<category, hasFile, file, fileKind, pc, resume, incompleteMode,
                   state, i, startIndex, verbId, conjugations, pending, exitCode,
                   runs, touched, fetched, written, outcome, rlIndex, answer>>
    /\ UNCHANGED <<page, parsedVerb>>
    /\ UNCHANGED lvars

StoreNext ==
    \/ \E infinitive \in StoreInfinitives, usagePopularity \in StorePopularities :
          StoreInsertVerb(infinitive, usagePopularity)
    \/ \E id \in 1..MaxStoreCalls, tense \in StoreTenses, forms \in StoreForms :
          StoreInsertConjugation(id, tense, forms)

\* The store is followed under calls of db.js alone; main() does not run.
StoreInit ==
    /\ Init
    /\ category = << <<>> >>

\* Any sequence of calls of insertVerb and insertConjugation.
SpecStore == StoreInit /\ [][StoreNext]_vars

\* --------------------------------------- api.js: calls that overlap in time

\* apiRequest is called by two flows of control (two awaits started without
\* waiting for each other): a call can start while another one is suspended
\* at line 23 or at line 46.
ConcNext ==
    \/ \E c \in Callers, r \in Requests : StartCall(c, r)
    \/ \E c \in Callers : TimerFires(c)
    \/ \E c \in Callers, status \in Statuses :
          \E body \in BodiesFor(req[c]) : Respond(c, status, body)
    \/ Tick

\* The calls of apiRequest of two flows of control of one process.
SpecConc == SeqInit /\ [][ConcNext]_vars

\* ------------------------------------------------------ claims on the phases

\* q is the phase p or the one right after it.
PhaseStepOk(p, q) ==
    PhaseRank(q) - PhaseRank(p) \in {0, 1}

\* The place main() is at, for a state in phase p, right after the start.
PcOfPhase(p) ==
    CASE p = "fetching_verbs" -> "phase1"
      [] p = "fetching_conjugations" -> "phase2"
      [] OTHER -> "phase3"

\* A process runs, in the second phase, at or inside the loop over the titles.
InLoop ==
    pc \in {"loop", "conj"}

\* C1: the phase only moves fetching_verbs -> fetching_conjugations ->
\* completed.  Within a run the phase of main's state stays or moves to the next
\* phase; a resumed run starts in the phase of the checkpoint, at the place of
\* that phase; every write of the checkpoint by a run whose state continues
\* the checkpoint (it resumed from it or wrote it) leaves the checkpointed
\* phase or moves it to the next one; and a written checkpoint holds the
\* phase of main's state.
C1_PhaseOrder ==
    [][ /\ (pc # "idle" /\ pc' # "idle")
            => PhaseStepOk(state.phase, state'.phase)
        /\ (pc = "idle" /\ pc' # "idle" /\ resume')
            => (state'.phase = file.phase /\ pc' = PcOfPhase(file.phase))
        /\ (pc # "idle" /\ hasFile /\ file = state /\ file' # file)
            => PhaseStepOk(file.phase, file'.phase)
        /\ (hasFile' /\ (file' # file \/ ~ hasFile))
            => file'.phase = state'.phase
      ]_vars

\* C1 witness: a resumed run that began in the second phase has handled a
\* title and checkpointed the last phase.
C1_Witness ==
    /\ resume
    /\ pc = "phase3"
    /\ touched # <<>>
    /\ startIndex > 0
    /\ file.phase = "completed"

\* C2: after the 429 answer for title k in the second phase, the checkpoint
\* holds cursor k - 1 and the second phase; the run has ended with exit code 1
\* and k is the last and highest index it handled; and a resumed run that
\* comes to the loop before any title is handled again is at title k.
C2_RateLimitStop ==
    \A k \in rlIndex :
        /\ hasFile
        /\ file.processedVerbIndex = k - 1
        /\ file.phase = "fetching_conjugations"
        /\ outcome = "ratelimit"
            => /\ pc = "idle"
               /\ exitCode = "1"
               /\ touched # <<>>
               /\ touched[Len(touched)] = k
               /\ \A j \in 1..Len(touched) : touched[j] <= k
               /\ k \notin written
        /\ InLoop => (resume /\ i = k)

\* C2 witness: title 1 was answered with 429, and the resumed run has
\* requested title 1 again and is writing it.
C2_Witness ==
    /\ rlIndex = {1}
    /\ resume
    /\ pc = "conj"
    /\ touched = <<1>>
    /\ fetched = {1}

\* C3: the loop of a run starts right after the cursor of the checkpoint (for
\* a run resumed in the second phase, the cursor it resumed from, which its
\* start leaves in the file), and the run handles consecutive indices from
\* there, requesting and writing no index below the start.
C3_ResumeOrder ==
    [][ /\ (pc = "idle" /\ pc' # "idle" /\ resume')
            => state'.processedVerbIndex = file.processedVerbIndex
        /\ (pc = "phase2" /\ pc' = "loop")
            => /\ file' = file
               /\ startIndex' = file.processedVerbIndex + 1
               /\ i' = startIndex'
        /\ InLoop'
            => /\ \A j \in 1..Len(touched') : touched'[j] = startIndex' + j - 1
               /\ \A j \in fetched' \cup written' : j >= startIndex'
               /\ i' >= startIndex'
      ]_vars

\* C3 witness: a run resumed from cursor 0 in the second phase has requested
\* title 1, and nothing below it.
C3_Witness ==
    /\ resume
    /\ InLoop
    /\ startIndex = 1
    /\ touched = <<1>>
    /\ fetched = {1}

\* The outcomes of a title after which the loop goes on.
NonFatal == {"accepted", "rejected", "skipped", "nopage", "error"}

\* C4: while the loop is at title i, the checkpoint holds cursor i - 1 and
\* the second phase, and so does main's state; and the step from title i to
\* title i + 1, whatever the non-fatal outcome, writes cursor i to the state
\* and the checkpoint.
C4_CheckpointEachTitle ==
    [][ /\ InLoop'
            => /\ hasFile'
               /\ file'.processedVerbIndex = i' - 1
               /\ file'.phase = "fetching_conjugations"
               /\ state'.processedVerbIndex = i' - 1
        /\ (InLoop /\ InLoop' /\ i' # i)
            => /\ i' = i + 1
               /\ outcome' \in NonFatal
               /\ state'.processedVerbIndex = i
               /\ file' = state'
               /\ touched'[Len(touched')] = i
      ]_vars

\* C4 witness: title 0 was handled with a non-rate-limit error, title 1 was
\* rejected, and the loop is at title 2 with cursor 1 checkpointed.
C4_Witness ==
    /\ pc = "loop"
    /\ i = 2
    /\ touched = <<0, 1>>
    /\ fetched = {0, 1}
    /\ outcome = "error"
    /\ file.processedVerbIndex = 1

\* C5 (as stated): when a category run leaves the enumeration, verbList holds
\* the titles of each page of the category exactly once.
C5_EachPageOnce ==
    [][ (pc = "enumdone" /\ pc' = "phase2")
            => state'.verbList = Flatten(category) ]_vars

\* -1 <= cursor < length of the list.
CursorInRange(s) ==
    /\ -1 <= s.processedVerbIndex
    /\ s.processedVerbIndex < Len(s.verbList)

\* C6: the cursor of main's state and of the checkpoint is at least -1 and
\* below the length of the list (so -1 for an empty list).
C6_CursorInRange ==
    /\ pc # "idle" => CursorInRange(state)
    /\ hasFile => CursorInRange(file)

\* C6 witness: a resumed run was stopped by a 429 at the first title it
\* handled, the last of the list.
C6_Witness ==
    /\ resume
    /\ outcome = "ratelimit"
    /\ touched = <<1>>
    /\ Len(file.verbList) = 2
    /\ file.processedVerbIndex = 0

\* C7 (as stated): a checkpoint in the second or the last phase holds no
\* continuation token.
C7_TokenOnlyWhileEnumerating ==
    (hasFile /\ file.phase \in {"fetching_conjugations", "completed"})
        => file.verbListContinueToken = Null

\* C8 (as stated): within a run verbList only grows at its end, and not at
\* all once the first phase is left; a resumed run starts with the list of the
\* checkpoint.
C8_ListAppendOnly ==
    [][ /\ (pc # "idle" /\ pc' # "idle")
            => /\ IsPrefix(state.verbList, state'.verbList)
               /\ state.phase # "fetching_verbs"
                    => state'.verbList = state.verbList
        /\ (pc = "idle" /\ pc' # "idle" /\ resume')
            => state'.verbList = file.verbList
      ]_vars

\* ------------------------------------------- claims on the enumeration

\* The token the server returns with page k of its category.
TokenAfter(k) ==
    IF k < Len(category) THEN TokenNames[k + 1] ELSE Null

\* The titles of the pages before page k.
RECURSIVE TitlesBefore(_)
TitlesBefore(k) ==
    IF k <= 1 THEN <<>> ELSE TitlesBefore(k - 1) \o category[k - 1]

\* C11: in the enumeration of the category, a received page k has its titles
\* appended to verbList, the token set to the one the server returned with
\* page k, and this state checkpointed, in the step that receives it, so that
\* main's state and the checkpoint agree whenever the next page is about to be
\* requested; in a run that started fresh the list then holds the pages
\* before the one the token asks for.  When a later request is answered with
\* 429 the run ends with exit code 1 and the checkpoint is the one written
\* after the last page received: first phase, the titles of all pages
\* received, the token returned with the last one.
C11_PageCheckpointed ==
    [][ /\ (pc \in {"phase1", "enum"} /\ ~ incompleteMode
                /\ pc' \in {"enum", "enumdone"})
            => LET k == PageOfToken(state.verbListContinueToken)
               IN  /\ state'.verbList = state.verbList \o category[k]
                   /\ state'.verbListContinueToken = TokenAfter(k)
                   /\ hasFile'
                   /\ file' = state'
                   /\ pc' = "enum" <=> k < Len(category)
        /\ pc' = "enum"
            => /\ file' = state'
               /\ file'.verbListContinueToken # Null
               /\ ~ resume' => state'.verbList =
                      TitlesBefore(PageOfToken(state'.verbListContinueToken))
        /\ (pc = "enum" /\ pc' = "idle" /\ answer' = "status429")
            => /\ exitCode' = "1"
               /\ hasFile'
               /\ file' = file
               /\ file' = state
               /\ file'.phase = "fetching_verbs"
      ]_vars

\* C11 witness: a fresh run merged and checkpointed page 1 with its token,
\* and the request for page 2 was answered with 429.
C11_Witness ==
    /\ pc = "idle"
    /\ exitCode = "1"
    /\ answer = "status429"
    /\ ~ resume
    /\ Len(category) = 2
    /\ file.phase = "fetching_verbs"
    /\ file.verbList = category[1]
    /\ file.verbListContinueToken = TokenNames[2]

\* ---------------------------------------------- claims on the acceptance

\* The rows of verb_conjugations of the verb being written.
RowsOfVerb ==
    {c \in db.conj : c.verb_id = verbId}

\* The six slots of a slot set are there, not empty, not blank and not the
\* placeholder.
SlotsComplete(forms) ==
    \A f \in {"sg1", "sg2", "sg3", "pl1", "pl2", "pl3"} : SlotFilled(forms, f)

\* A title the loop passes over without a request: it has no infinitive after
\* "Flexion:", or the infinitive has a space in it.
TitleSkips(title) ==
    \/ Len(title) < 2
    \/ title[1] # "Flexion:"
    \/ \E k \in 2..Len(title) : title[k] = " "

\* C12: the store changes only while a verb is written whose page had
\* present, simple past and present perfect with all six slots filled (the
\* answer says so, and so does the parse result main holds), and every row
\* written for it holds a complete slot set; a page that lacks one of the
\* three, or has it incomplete, leaves the store and the set of written titles
\* as they were.
C12_WriteOnlyComplete ==
    [][ /\ db' # db
            => /\ pc' = "conj"
               /\ answer' = "complete"
               /\ \A t \in {"praesens", "praeteritum", "perfekt"} :
                     SlotsComplete(conjugations'[t])
               /\ \A c \in db'.conj \ db.conj : SlotsComplete(c.forms)
        /\ ~ (written' \subseteq written) => answer' = "complete"
        /\ (touched' # touched /\ answer' = "incomplete")
            => (db' = db /\ written' = written /\ pc' # "conj")
      ]_vars

\* C12 witness: the page of title 0 was requested and nothing written for
\* it, and the verb of title 2 has its row and three tense rows.
C12_Witness ==
    /\ pc = "conj"
    /\ pending = <<>>
    /\ i = 2
    /\ fetched = {0, 2}
    /\ written = {2}
    /\ Cardinality(RowsOfVerb) = 3
    /\ \A v \in db.verbs : v.infinitive = <<"aufstehen">>

\* C13 (as stated): when the tenses of an accepted verb are written, its rows
\* are those of every parsed tense whose slot set is complete, the optional
\* tenses among them.
C13_AllCompleteTensesWritten ==
    (pc = "conj" /\ pending = <<>>)
        => {c.tense : c \in RowsOfVerb}
             = {t \in {Tenses[k] : k \in 1..Len(Tenses)} :
                    SlotsComplete(conjugations[t])}

\* C13 (amended): the tenses selected and written for an accepted verb are
\* exactly present, simple past and present perfect, each complete and with
\* the slots parsed from the page, written in that order; no row of an
\* optional tense is ever written, complete or not.
C13_RequiredTensesWritten ==
    /\ pc = "conj"
        => \E n \in 0..3 :
              /\ Len(pending) = 3 - n
              /\ \A k \in 1..Len(pending) :
                    /\ pending[k].tense = RequiredTenses[n + k]
                    /\ pending[k].forms = conjugations[pending[k].tense]
              /\ {c.tense : c \in RowsOfVerb} = {RequiredTenses[k] : k \in 1..n}
              /\ \A c \in RowsOfVerb :
                    /\ c.forms = conjugations[c.tense]
                    /\ SlotsComplete(c.forms)
    /\ \A c \in db.conj : c.tense \in {"praesens", "praeteritum", "perfekt"}

\* C13 witness: the three required tenses of a verb are written, and its
\* page had a complete future I that is not.
C13_Witness ==
    /\ pc = "conj"
    /\ pending = <<>>
    /\ SlotsComplete(conjugations.futur1)
    /\ ~ SlotsComplete(conjugations.futur2)
    /\ {c.tense : c \in RowsOfVerb} = {"praesens", "praeteritum", "perfekt"}

\* C14: handling a title that is skipped, has no page, or whose page lacks a
\* complete present, simple past or present perfect, leaves the store as it
\* was: no row of verbs or verb_conjugations is inserted, replaced or deleted.
C14_RejectedLeavesStore ==
    [][ /\ (touched' # touched /\ answer' \in {"incomplete", "nopage"})
            => db' = db
        /\ (touched' # touched /\ TitleSkips(TitleAt(state, i)))
            => db' = db
      ]_vars

\* C14 witness: the verb of title 0 is in the store with its three tenses
\* from an earlier run, and a later run has just rejected its page.
C14_Witness ==
    /\ pc = "loop"
    /\ i = 1
    /\ touched = <<0>>
    /\ outcome = "rejected"
    /\ answer = "incomplete"
    /\ \E v \in db.verbs :
          /\ v.infinitive = <<"gehen">>
          /\ Cardinality({c \in db.conj : c.verb_id = v.id}) = 3

\* C15 (as stated): behind the checkpointed cursor every verb of the store
\* has its three required tense rows; a verb row with fewer never stays behind
\* a cursor that has moved past its title.
C15_NoPartialBehindCursor ==
    (hasFile /\ file.phase # "fetching_verbs")
        => \A k \in 0..file.processedVerbIndex :
              \A v \in db.verbs :
                  v.infinitive = extractInfinitiveFromTitle(TitleAt(file, k))
                      => {c.tense : c \in {x \in db.conj : x.verb_id = v.id}}
                            = {"praesens", "praeteritum", "perfekt"}

\* C16: the step that handles a title without infinitive, or whose infinitive
\* has a space in it, requests no page and leaves the store as it was; it sets
\* the cursor to the title's index, checkpoints, and goes on to the next title.
C16_SkipNoFetch ==
    [][ (pc = "loop" /\ i < Len(state.verbList)
            /\ TitleSkips(TitleAt(state, i)) /\ exitCode' # "killed")
            => /\ fetched' = fetched
               /\ written' = written
               /\ db' = db
               /\ touched' = Append(touched, i)
               /\ state'.processedVerbIndex = i
               /\ hasFile'
               /\ file' = state'
               /\ pc' = "loop"
               /\ i' = i + 1
      ]_vars

\* C16 witness: "Flexion:sich freuen" at index 1 was passed over after the
\* page of title 0 was requested; the checkpoint has cursor 1.
C16_Witness ==
    /\ pc = "loop"
    /\ i = 2
    /\ TitleAt(state, 1) = <<"Flexion:", "sich", " ", "freuen">>
    /\ touched = <<0, 1>>
    /\ fetched = {0}
    /\ outcome = "skipped"
    /\ file.processedVerbIndex = 1

\* C17: an answer with an error status other than 429 to the request for
\* title i does not end the run: the cursor is set to i and checkpointed, the
\* store is left alone and the loop is at title i + 1.  The title is not
\* taken up again by a resumed run: a resumed run never moves the cursor of
\* the second phase back, and its loop starts after the cursor it loaded.
C17_TransportErrorGoesOn ==
    [][ /\ (touched' # touched /\ answer' = "httperror")
            => /\ pc' = "loop"
               /\ exitCode' = "none"
               /\ i' = i + 1
               /\ state'.processedVerbIndex = i
               /\ hasFile'
               /\ file' = state'
               /\ db' = db
        /\ (pc # "idle" /\ resume /\ hasFile /\ file' # file
                /\ file.phase = "fetching_conjugations")
            => file'.processedVerbIndex >= file.processedVerbIndex
        /\ (pc = "phase2" /\ pc' = "loop" /\ resume)
            => i' > file.processedVerbIndex
      ]_vars

\* C17 witness: title 0 was answered with an error status, and the loop is
\* at title 1 with cursor 0 checkpointed.
C17_Witness ==
    /\ pc = "loop"
    /\ i = 1
    /\ touched = <<0>>
    /\ answer = "httperror"
    /\ outcome = "error"
    /\ file.processedVerbIndex = 0
    /\ exitCode = "none"

\* C18 (as stated): a failing write of the store while title i is handled
\* ends the run with a code other than 0, and the checkpoint then has cursor
\* i - 1.
C18_WriteFailureAborts ==
    [][ (pc \in {"loop", "conj"} /\ outcome' = "dberror"
            /\ exitCode' # "killed" /\ i' # i)
            => /\ pc' = "idle"
               /\ exitCode' = "1"
               /\ hasFile'
               /\ file'.processedVerbIndex = i - 1
      ]_vars

\* C19: a run resumed from a checkpoint in the last phase is at the summary
\* right away, with the state of the checkpoint; and from the summary a run
\* only ends, with exit code 0 unless it is terminated, requesting no page
\* and leaving store and checkpoint (phase, token, list, cursor) as they were.
C19_CompletedResumeIdle ==
    [][ /\ (pc = "idle" /\ resume' /\ runs' # runs /\ hasFile
                /\ file.phase = "completed")
            => /\ pc' = "phase3"
               /\ state' = file
               /\ file' = file
               /\ hasFile'
               /\ db' = db
               /\ fetched' = {}
        /\ pc = "phase3"
            => /\ pc' = "idle"
               /\ exitCode' \in {"0", "killed"}
               /\ file' = file
               /\ hasFile' = hasFile
               /\ db' = db
               /\ fetched' = fetched
               /\ touched' = touched
      ]_vars

\* C19 witness: a run resumed from a completed checkpoint of three titles has
\* ended with exit code 0 without entering the loop.
C19_Witness ==
    /\ pc = "idle"
    /\ exitCode = "0"
    /\ resume
    /\ touched = <<>>
    /\ fetched = {}
    /\ file.phase = "completed"
    /\ Len(file.verbList) = 3
    /\ file.processedVerbIndex = 2

\* C20 (as stated): a run asked to resume from a file that holds no usable
\* state goes on as a fresh run does: first phase, default state, no exit.
C20_BadFileStartsFresh ==
    [][ (pc = "idle" /\ runs' # runs /\ resume' /\ fileKind # "state")
            => /\ pc' = "phase1"
               /\ state' = getDefaultState
               /\ exitCode' = "none"
      ]_vars

\* ------------------------------------------------ claims on resumed runs

\* The checkpoint has phase completed and its cursor is at the last title.
CompletedCheckpoint ==
    /\ hasFile
    /\ file.phase = "completed"
    /\ file.processedVerbIndex = Len(file.verbList) - 1

\* C25 as stated: when every run that stopped on the rate limit or was
\* terminated is run again with --resume, and failures and terminations are
\* finitely many, the checkpoint in the end has phase completed with every
\* index of its list handled.
C25_EventuallyCompleted ==
    <>CompletedCheckpoint

\* C25 as amended: the same, when also every run that stopped on another
\* failed request of the enumeration is run again; that is, the completed
\* checkpoint is written in the end unless such a run stays stopped for ever.
C25_CompletedIfRerun ==
    (<>[]StoppedOnError) \/ (<>CompletedCheckpoint)

\* A run after the first one (a resumed one) has ended with the completed
\* checkpoint of a list that is not empty.
C25_Witness ==
    /\ runs > 1
    /\ resume
    /\ pc = "idle"
    /\ exitCode = "0"
    /\ hasFile
    /\ file.phase = "completed"
    /\ Len(file.verbList) > 0
    /\ file.processedVerbIndex = Len(file.verbList) - 1

\* C26: in every checkpoint written since a fresh start the cursor is -1
\* while the phase is fetching_verbs, and is the index of the last title of
\* the list when the phase is completed.
C26_CursorOfPhase ==
    hasFile =>
        /\ file.phase = "fetching_verbs" => file.processedVerbIndex = -1
        /\ file.phase = "completed" =>
              file.processedVerbIndex = Len(file.verbList) - 1

\* The first run has gone through the three titles of the two-page category
\* and checkpointed completed.
C26_Witness ==
    /\ runs = 1
    /\ hasFile
    /\ file.phase = "completed"
    /\ Len(file.verbList) = 3
    /\ file.processedVerbIndex = 2
    /\ outcome # "none"

\* ------------------------------------------------------ claims on the parser

\* The fields of a ParsedVerb, and a slot set that is empty or has six slots.
ParsedVerbFields ==
    {"separablePrefix", "infinitive", "praesens", "praeteritum", "perfekt",
     "plusquamperfekt", "futur1", "futur2"}

IsParsedVerb(v) ==
    /\ DOMAIN v = ParsedVerbFields
    /\ \A t \in {"praesens", "praeteritum", "perfekt", "plusquamperfekt",
                 "futur1", "futur2"} :
          DOMAIN v[t] \in {{}, {"sg1", "sg2", "sg3", "pl1", "pl2", "pl3"}}

\* C21 as stated: parseConjugations never raises and never returns null,
\* for any text, the empty text included; it returns a record with the
\* infinitive, the separable prefix and the six tenses.
C21_ParserAlwaysReturns ==
    parsedVerb.called =>
        /\ ~ parsedVerb.threw
        /\ ~ parsedVerb.isNull
        /\ IsParsedVerb(parsedVerb.value)

\* C21 as amended: parseConjugations never raises; it returns null for the
\* empty text and for no other; for every other text it returns a record
\* with the infinitive, the separable prefix and the six tenses, each tense
\* empty or with its six slots.
C21_ParserReturnsOrNull ==
    parsedVerb.called =>
        /\ ~ parsedVerb.threw
        /\ parsedVerb.isNull <=> (Len(Markup(page)) = 0)
        /\ ~ parsedVerb.isNull => IsParsedVerb(parsedVerb.value)

\* A page with text but without any heading cell or row was parsed: a
\* record came back, every tense of it empty.
C21_Witness ==
    /\ parsedVerb.called
    /\ ~ page.empty
    /\ \A n \in 1..Len(Markup(page)) : Markup(page)[n].k \notin {"tdc", "row", "h2"}
    /\ ~ parsedVerb.isNull
    /\ \A t \in {"praesens", "praeteritum", "perfekt", "plusquamperfekt",
                 "futur1", "futur2"} : DOMAIN parsedVerb.value[t] = {}

\* The section of tense t on the page p has its heading cell and at least
\* six rows; it has no heading cell, or fewer than six rows.
SectionWellFormed(p, t) ==
    p[t] \in {"full", "long", "nospan", "plain"}

SectionDeficient(p, t) ==
    p[t] \in {"short", "nohead", "absent"}

\* C22 as stated: a tense's slot set is non-empty only if its heading is
\* there with at least six rows, and then the first six rows give sg1..pl3
\* in this order; a tense without heading or with fewer than six rows is
\* empty, and every other tense is parsed as on the page where that
\* tense's section is well-formed.
C22_TenseSectionsIndependent ==
    (parsedVerb.called /\ ~ parsedVerb.isNull) =>
        \A n \in 1..Len(Tenses) :
            LET t == Tenses[n]
                well == parseConjugations(Markup([page EXCEPT ![t] = "full"])).value
            IN  /\ DOMAIN parsedVerb.value[t] # {} =>
                      /\ SectionWellFormed(page, t)
                      /\ \A m \in 1..Len(Slots) :
                            parsedVerb.value[t][Slots[m]] =
                                extractTextFromCell(RowCellMatch(
                                    RowsFor(t, page.verb, 6,
                                            page[t] # "plain")[m]).cell)
                /\ SectionDeficient(page, t) =>
                      /\ DOMAIN parsedVerb.value[t] = {}
                      /\ \A k \in 1..Len(Tenses) :
                            k # n => parsedVerb.value[Tenses[k]] = well[Tenses[k]]


\* The first comma-delimited alternative of a slot value, trimmed; its
\* words; words joined by single spaces.
FirstAlternative(value) ==
    LET comma == FirstOf({n \in 1..Len(value) : value[n] = ","})
    IN  Trim(IF comma = 0 THEN value ELSE SubSeq(value, 1, comma - 1))

WordsOf(alt) ==
    SelectSeq(alt, LAMBDA x : x # " ")

SpacedOut(words) ==
    [n \in 1..(IF words = <<>> THEN 0 ELSE 2 * Len(words) - 1) |->
        IF n % 2 = 1 THEN words[(n + 1) \div 2] ELSE " "]

\* What C23 says the separable prefix is, for the sg1 slot of praesens.
PrefixOfSg1(sg1) ==
    LET alt == FirstAlternative(sg1)
    IN  IF \A n \in 1..Len(alt) : alt[n] # " "
        THEN <<>>
        ELSE SpacedOut(SelectSeq(Tail(WordsOf(alt)),
                 LAMBDA w : w \notin {"mich", "dich", "sich", "uns", "euch"}))

\* C23: the separable prefix of a parsed verb is that of the first
\* alternative of the sg1 slot of praesens: none without a space in it (and
\* none without the slot), else its words after the first, without the
\* reflexive pronouns, joined by single spaces; and every slot of every
\* tense is as the tables were parsed, the sg1 slot of praesens too.
C23_SeparablePrefix ==
    (parsedVerb.called /\ ~ parsedVerb.isNull) =>
        LET v == parsedVerb.value
            sg1 == IF "sg1" \in DOMAIN v.praesens THEN v.praesens["sg1"] ELSE <<>>
        IN  /\ v.separablePrefix = PrefixOfSg1(sg1)
            /\ \A n \in 1..Len(Tenses) :
                  v[Tenses[n]] = ParseTense(Markup(page), Tenses[n]).forms

\* The page of aufstehen was parsed: sg1 of praesens is "stehe auf", the
\* prefix is "auf".
C23_Witness ==
    /\ parsedVerb.called
    /\ page.verb = "aufstehen"
    /\ page.praesens = "full"
    /\ parsedVerb.value.praesens["sg1"] = <<"stehe", " ", "auf">>
    /\ parsedVerb.value.separablePrefix = <<"auf">>


\* ------------------------------------------------------ claims on the store

\* C24: after any calls of insertVerb and insertConjugation there is at
\* most one verb row for an infinitive and at most one tense row for a
\* (verbId, tense); after insertVerb there is exactly one row of the
\* infinitive, it carries the usagePopularity of this call (also when a row
\* with another value was there), and the id returned is the id of the row.
C24_UpsertByKey ==
    /\ \A v \in db.verbs, w \in db.verbs : v.infinitive = w.infinitive => v = w
    /\ \A c \in db.conj, e \in db.conj :
          (c.verb_id = e.verb_id /\ c.tense = e.tense) => c = e
    /\ stored.op = "verb" =>
          LET rows == {v \in db.verbs : v.infinitive = stored.infinitive}
          IN  /\ Cardinality(rows) = 1
              /\ \A v \in rows : /\ v.usage_popularity = stored.usagePopularity
                                 /\ v.id = stored.id

\* insertVerb was called for an infinitive that had a row with another
\* usagePopularity, in a store that holds a tense row of another verb.
C24_Witness ==
    /\ stored.op = "verb"
    /\ \E old \in stored.before : old.usage_popularity # stored.usagePopularity
    /\ \E v \in db.verbs : v.infinitive = stored.infinitive
    /\ db.conj # {}

\* C28: when the scraper writes a verb whose infinitive is already in the
\* store, the usage_popularity stored for that infinitive is the same after
\* the write as before it.
C28_PopularityKept ==
    [][(pc = "loop" /\ pc' = "conj") =>
          \A v \in db.verbs, w \in db'.verbs :
              v.infinitive = w.infinitive =>
                  w.usage_popularity = v.usage_popularity]_vars

\* ------------------------------------------------- claims on the api client

\* C9: of any two consecutive outbound calls of the sequential flow, whatever
\* their requests, the second is issued at least RATE_LIMIT_MS after the first;
\* the one clock lastRequestTime is the time of the last outbound call of any
\* caller; and the first call is issued without a wait.
C9_MinInterval ==
    /\ \A j \in 2..Len(issued) :
          issued[j].at - issued[j - 1].at >= RATE_LIMIT_MS
    /\ issued # <<>> => lastRequestTime = issued[Len(issued)].at
    /\ issued # <<>> => ~ issued[1].waited
    /\ nCalls = 1 => \A c \in Callers : rpc[c] # "waiting"

\* C27: also when calls of apiRequest overlap, any two outbound calls are
\* issued at least RATE_LIMIT_MS apart.
C27_OverlapMinInterval ==
    \A p \in 1..Len(issued), q \in 1..Len(issued) :
        p < q => issued[q].at - issued[p].at >= RATE_LIMIT_MS

\* C9 witness: a page request to the English wiki right after a category
\* request to the German one had to wait and went out exactly RATE_LIMIT_MS
\* later, and a third call followed.
C9_Witness ==
    /\ Len(issued) = 3
    /\ issued[1].req = [kind |-> "categorymembers", lang |-> "de"]
    /\ issued[2].req = [kind |-> "parse", lang |-> "en"]
    /\ issued[2].waited
    /\ issued[2].at - issued[1].at = RATE_LIMIT_MS

\* The tokens of a message include x.
Carries(message, x) ==
    \E k \in 1..Len(message) : message[k] = x

\* C10: a call of apiRequest issues at most one outbound call, and exactly
\* one by the time it ends; a 429 answer throws the RATE_LIMIT error, any
\* other status outside 200..299 throws an error that carries the status and
\* the status text and does not start with RATE_LIMIT, and a status in
\* 200..299 with a JSON body returns that body; with no call in progress as
\* many outbound calls were issued as calls were made.
C10_OneCallOneOutcome ==
    /\ \A c \in Callers :
        /\ fetches[c] <= 1
        /\ (rpc[c] = "idle" /\ resp[c] # NoResponse)
            => /\ fetches[c] = 1
               /\ resp[c].status = 429
                    => (result[c].threw /\ StartsWithRateLimit(result[c].message))
               /\ (resp[c].status # 429 /\ resp[c].status \notin 200..299)
                    => /\ result[c].threw
                       /\ ~ StartsWithRateLimit(result[c].message)
                       /\ Carries(result[c].message, ToString(resp[c].status))
                       /\ Carries(result[c].message, "statusText")
               /\ (resp[c].status \in 200..299 /\ resp[c].body.json)
                    => (~ result[c].threw /\ result[c].value = resp[c].body)
    /\ Len(issued) <= nCalls
    /\ (\A c \in Callers : rpc[c] = "idle") => Len(issued) = nCalls

\* C10 witness: three calls were made and answered, the last with a 429.
C10_Witness ==
    /\ nCalls = 3
    /\ Len(issued) = 3
    /\ rpc["c1"] = "idle"
    /\ resp["c1"].status = 429
    /\ result["c1"].threw

====
